---- MODULE Spec2Model ----
(***************************************************************************)
(* A model of the Caustic grammar engine.                                  *)
(*                                                                         *)
(* The repository holds three generations of the node classes side by     *)
(* side.  Each is modelled from its own files:                             *)
(*   - grammar/nodes/{__init__,flat,nested,meta}.py: the nodes that hold   *)
(*     a NOMATCH object and a return mode ("G" below);                     *)
(*   - grammar/nodes/base.py with lib/nodes/{flat,meta}.py and             *)
(*     grammar/__init__.py: the nodes that use GrammarMark, the mixins     *)
(*     and the Grammar with its compile scheduler ("L" below);             *)
(*   - src/caustic/lexer/nodes.py: the nodes of the textual grammar        *)
(*     compiler, NodeGroup, NodeUnion, NodeRange, ... ("X" below).         *)
(***************************************************************************)
EXTENDS Integers, Sequences, FiniteSets, TLC

VARIABLES
    fam,      \* which generation of node classes the match below runs on
    node,     \* the node that is invoked (a tree of resolved nodes)
    buf,      \* the bytes of the buffer matcher
    entry,    \* the cursor when the node is invoked
    cur,      \* the cursor now
    res,      \* what the invocation produced
    pc,       \* "ready" before the invocation, "done" after it
    objs,     \* the node objects: binding, failure, hint, resolved sub-node
    gnodes,   \* Grammar.nodes: the object stored under each name, or 0
    patterns, \* the names of the complete patterns of Grammar.patterns
    ret       \* what the last operation on the grammar produced

mvars == <<fam, node, buf, entry, cur, res, pc>>
gvars == <<objs, gnodes, patterns, ret>>
vars == <<fam, node, buf, entry, cur, res, pc, objs, gnodes, patterns, ret>>

----------------------------------------------------------------------------
(* Bytes and small helpers                                                 *)

NL == "\n"
SP == " "

Max2(a, b) == IF a >= b THEN a ELSE b
Min2(a, b) == IF a <= b THEN a ELSE b

\* data[start:] of Python, for any integer start (a negative start counts
\* from the end, and either is clipped to the buffer).
PySliceFrom(data, start) ==
    LET n == Len(data)
        s == IF start < 0 THEN Max2(n + start, 0) ELSE Min2(start, n)
    IN  SubSeq(data, s + 1, n)

\* bytes.startswith
StartsWith(data, lit) ==
    /\ Len(lit) <= Len(data)
    /\ SubSeq(data, 1, Len(lit)) = lit

\* data.count(b'\n', 0, stop)
RECURSIVE CountNL(_, _)
CountNL(data, stop) ==
    LET e == IF stop < 0 THEN Max2(Len(data) + stop, 0) ELSE Min2(stop, Len(data))
    IN  IF e = 0 THEN 0
        ELSE CountNL(data, e - 1) + (IF data[e] = NL THEN 1 ELSE 0)

\* data.rindex(b'\n', 0, stop), or -1 where Python raises ValueError
RECURSIVE RIndexNL(_, _)
RIndexNL(data, stop) ==
    LET e == IF stop < 0 THEN Max2(Len(data) + stop, 0) ELSE Min2(stop, Len(data))
    IN  IF e = 0 THEN -1
        ELSE IF data[e] = NL THEN e - 1
        ELSE RIndexNL(data, e - 1)

----------------------------------------------------------------------------
(* The buffer matcher of patternlib/buffer_matcher.py                      *)

\* BufferMatcher_DynamicLCNo.lno
DynamicLCNo_lno(data, pos) == CountNL(data, pos + 1)

\* BufferMatcher_DynamicLCNo.cno
DynamicLCNo_cno(data, pos) ==
    LET line == IF RIndexNL(data, pos + 1) = -1 THEN 0
                ELSE RIndexNL(data, pos + 1)
    IN  pos - line

\* BufferMatcher_StaticLCNo.__init__
StaticLCNo_init == [pos |-> 0, lno |-> 0, cno |-> 0]

\* BufferMatcher_StaticLCNo.step(amount) for an amount in range
StaticLCNo_step(data, c, amount) ==
    LET newp == c.pos + amount
    IN  IF amount = 0 THEN c
        ELSE [pos |-> newp,
              lno |-> DynamicLCNo_lno(data, newp),
              cno |-> DynamicLCNo_cno(data, newp)]

\* BufferMatcher_StaticLCNo.__call__ with func the match of a regular
\* expression that is the literal lit: the cursor after it, or the cursor
\* it was given when the expression does not match.
Matches(data, c, lit) == StartsWith(PySliceFrom(data, c.pos), lit)

StaticLCNo_call(data, c, lit) ==
    IF ~Matches(data, c, lit) THEN c
    ELSE LET end == Len(lit)
             lc  == CountNL(lit, end)
         IN  [pos |-> c.pos + end - 1,
              lno |-> IF lc # 0 THEN c.lno + lc ELSE c.lno,
              cno |-> IF lc # 0 THEN end - RIndexNL(lit, end) ELSE c.cno]

\* save_loc and load_loc of the buffer matcher the nodes are written
\* against: a snapshot of the cursor and its exact restoration.
save_loc(c) == c
load_loc(c, saved) == saved

----------------------------------------------------------------------------
(* Values a match returns, and what an invocation produces                 *)

NOMATCH == [t |-> "NOMATCH"]                 \* GrammarNode.NOMATCH, GrammarMark.NO_MATCH, Node.NO_RETURN
None    == [t |-> "None"]
Bytes(b)    == [t |-> "bytes", b |-> b]
ReMatch(b)  == [t |-> "match", b |-> b]      \* an re.Match of the bytes b
Tuple(s)    == [t |-> "tuple", v |-> s]
List(s)     == [t |-> "list", v |-> s]
Dict(k, v)  == [t |-> "dict", k |-> k, v |-> v]
IntVal(n)   == [t |-> "int", n |-> n]
Str(s)      == [t |-> "str", s |-> s]

IsNoMatch(v) == v.t = "NOMATCH"

NoMode == "None"      \* no return_mode given
NoMax  == -1          \* max is None
Ready  == "None"      \* failure is None

\* An invocation ends by returning ("ok", with val), by raising ("raise",
\* with exc) or never ("hang"); cur is the cursor it leaves and calls the
\* names of the nodes whose __call__ ran, in order.
NoExc == [type |-> "None", node |-> "", cause |-> "None"]
Exc(type, name, cause) == [type |-> type, node |-> name, cause |-> cause]

Return(v, c, calls) ==
    [st |-> "ok", val |-> v, exc |-> NoExc, cur |-> c, calls |-> calls]
Raise(e, c, calls) ==
    [st |-> "raise", val |-> None, exc |-> e, cur |-> c, calls |-> calls]
Hang(c, calls) ==
    [st |-> "hang", val |-> None, exc |-> NoExc, cur |-> c, calls |-> calls]

\* dict(zip(keys, vals)): a later duplicate key replaces the value, the key
\* keeps its first place.
RECURSIVE DictZip(_, _, _, _)
DictZip(keys, vals, i, acc) ==
    IF i > Len(keys) THEN acc
    ELSE LET at == {j \in 1..Len(acc.k) : acc.k[j] = keys[i]}
         IN  IF at = {}
             THEN DictZip(keys, vals, i + 1,
                          Dict(Append(acc.k, keys[i]), Append(acc.v, vals[i])))
             ELSE DictZip(keys, vals, i + 1,
                          Dict(acc.k, [acc.v EXCEPT ![CHOOSE j \in at : TRUE] = vals[i]]))

\* dict.fromkeys(names): the names in order, without repetition
RECURSIVE FromKeys(_, _, _)
FromKeys(subs, i, acc) ==
    IF i > Len(subs) THEN acc
    ELSE IF \E j \in 1..Len(acc) : acc[j].name = subs[i].name
         THEN FromKeys(subs, i + 1, acc)
         ELSE FromKeys(subs, i + 1, Append(acc, subs[i]))

----------------------------------------------------------------------------
(* A node: its configuration, its failure, and its resolved sub-nodes      *)

Node(kind, name, lit, subs, min, max, val, mode, failure) ==
    [kind |-> kind, name |-> name, lit |-> lit, subs |-> subs,
     min |-> min, max |-> max, val |-> val, mode |-> mode, failure |-> failure]

\* The first member of each ReturnMode, which GrammarNode.__init__ uses when
\* no return_mode is given.
DefaultMode(kind) ==
    CASE kind = "Pattern" -> "MATCH"
      [] kind = "Union"   -> "PAIR"
      [] kind = "List"    -> "SEQ"
      [] kind = "Repeat"  -> "SEQ"
      [] OTHER            -> NoMode

ReturnMode(kind) ==
    CASE kind = "Pattern" -> {"MATCH", "DICT", "SEQ", "FULL"}
      [] kind = "Union"   -> {"PAIR", "STRUCT", "NAME", "VAL"}
      [] kind = "List"    -> {"SEQ", "DICT", "UNPACK"}
      [] kind = "Repeat"  -> {"SEQ", "FIRST", "LAST", "COUNT"}
      [] OTHER            -> {}

----------------------------------------------------------------------------
(* The nodes of grammar/nodes: GrammarNode.__call__ and each match         *)

RECURSIVE GrammarNode_call(_, _, _, _)
RECURSIVE UnionNode_loop(_, _, _, _, _, _)
RECURSIVE ListNode_loop(_, _, _, _, _, _, _)
RECURSIVE RepeatNode_min(_, _, _, _, _, _, _, _)
RECURSIVE RepeatNode_max(_, _, _, _, _, _, _)

\* PatternNode.match (flat.py)
PatternNode_match(data, n, c, rm) ==
    IF ~Matches(data, c, n.lit) THEN Return(NOMATCH, c, <<>>)
    ELSE LET c2 == StaticLCNo_call(data, c, n.lit)
         IN  CASE rm = "MATCH" -> Return(ReMatch(n.lit), c2, <<>>)
               [] rm = "DICT"  -> Return(Dict(<<>>, <<>>), c2, <<>>)
               [] rm = "SEQ"   -> Return(Tuple(<<>>), c2, <<>>)
               [] rm = "FULL"  -> Return(Bytes(n.lit), c2, <<>>)

\* TrueNode.match, FalseNode.match (meta.py)
TrueNode_match(data, n, c) == Return(n.val, c, <<>>)
FalseNode_match(data, n, c) == Return(NOMATCH, c, <<>>)

\* NotNode.match without its backtrack
NotNode_match_nobacktrack(data, n, c) ==
    LET r == GrammarNode_call(data, n.subs[1], c, NoMode)
    IN  IF r.st # "ok" THEN r
        ELSE IF IsNoMatch(r.val) THEN Return(n.val, r.cur, r.calls)
        ELSE Return(NOMATCH, r.cur, r.calls)

\* NotNode.match (meta.py)
NotNode_match(data, n, c) ==
    LET save == save_loc(c)
        r == GrammarNode_call(data, n.subs[1], c, NoMode)
    IN  IF r.st # "ok" THEN r
        ELSE IF IsNoMatch(r.val) THEN Return(n.val, r.cur, r.calls)
        ELSE Return(NOMATCH, load_loc(r.cur, save), r.calls)

\* UnionNode.match (nested.py): the shape is chosen by self.return_mode
UnionNode_shape(n, name, m) ==
    CASE n.mode = "PAIR"   -> Tuple(<<Str(name), m>>)
      [] n.mode = "STRUCT" -> Dict(<<"name", "val">>, <<Str(name), m>>)
      [] n.mode = "NAME"   -> Str(name)
      [] n.mode = "VAL"    -> m

\* UnionNode.match without the break: the last sub-node that matches wins
UnionNode_loop_nobreak(data, n, items, i, c, calls) ==
    IF i > Len(items) THEN Return(NOMATCH, c, calls)
    ELSE LET r == GrammarNode_call(data, items[i], c, NoMode)
             cs == calls \o r.calls
             rest == UnionNode_loop(data, n, items, i + 1, r.cur, cs)
         IN  IF r.st # "ok" THEN [r EXCEPT !.calls = cs]
             ELSE IF rest.st = "ok" /\ IsNoMatch(rest.val) /\ ~IsNoMatch(r.val)
                  THEN Return(UnionNode_shape(n, items[i].name, r.val), rest.cur, rest.calls)
                  ELSE rest

UnionNode_loop(data, n, items, i, c, calls) ==
    IF i > Len(items) THEN Return(NOMATCH, c, calls)
    ELSE LET r == GrammarNode_call(data, items[i], c, NoMode)
             cs == calls \o r.calls
         IN  IF r.st # "ok" THEN [r EXCEPT !.calls = cs]
             ELSE IF ~IsNoMatch(r.val)
                  THEN Return(UnionNode_shape(n, items[i].name, r.val), r.cur, cs)
                  ELSE UnionNode_loop(data, n, items, i + 1, r.cur, cs)

UnionNode_match(data, n, c, rm) ==
    UnionNode_loop(data, n, FromKeys(n.subs, 1, <<>>), 1, c, <<>>)

\* ListNode.match (nested.py)
ListNode_shape(n, rm, matches) ==
    CASE rm = "SEQ"  -> [st |-> "ok", val |-> Tuple(matches)]
      [] rm = "DICT" ->
            [st |-> "ok",
             val |-> DictZip([i \in 1..Len(n.subs) |-> n.subs[i].name], matches,
                             1, Dict(<<>>, <<>>))]
      [] rm = "UNPACK" ->
            IF matches = <<>> THEN [st |-> "ok", val |-> None]
            ELSE IF Len(matches) = 1 THEN [st |-> "ok", val |-> matches[1]]
            ELSE [st |-> "NameError", val |-> None]     \* cabc is not imported

ListNode_loop(data, n, rm, i, c, matches, calls) ==
    IF i > Len(n.subs)
    THEN LET s == ListNode_shape(n, rm, matches)
         IN  IF s.st = "ok" THEN Return(s.val, c, calls)
             ELSE Raise(Exc("NameError", n.name, "None"), c, calls)
    ELSE LET r == GrammarNode_call(data, n.subs[i], c, NoMode)
             cs == calls \o r.calls
         IN  IF r.st # "ok" THEN [r EXCEPT !.calls = cs]
             ELSE IF IsNoMatch(r.val)
                  \* on.load_loc(orig_pas): the name orig_pas is not defined
                  THEN Raise(Exc("NameError", n.name, "None"), r.cur, cs)
                  ELSE ListNode_loop(data, n, rm, i + 1, r.cur,
                                     Append(matches, r.val), cs)

ListNode_match(data, n, c, rm) ==
    ListNode_loop(data, n, rm, 1, c, <<>>, <<>>)

\* RepeatNode.match (nested.py)
RepeatNode_shape(rm, matches) ==
    CASE rm = "SEQ"   -> Tuple(matches)
      [] rm = "FIRST" -> IF matches # <<>> THEN matches[1] ELSE None
      [] rm = "LAST"  -> IF matches # <<>> THEN matches[Len(matches)] ELSE None
      [] rm = "COUNT" -> IntVal(Len(matches))

\* "get up to maximum": k is the number of iterations already made
RepeatNode_max(data, n, rm, k, c, matches, calls) ==
    IF n.max # NoMax /\ n.min + k >= n.max
    THEN Return(RepeatNode_shape(rm, matches), c, calls)
    ELSE LET r == GrammarNode_call(data, n.subs[1], c, NoMode)
             cs == calls \o r.calls
         IN  IF r.st # "ok" THEN [r EXCEPT !.calls = cs]
             ELSE IF IsNoMatch(r.val)
                  THEN Return(RepeatNode_shape(rm, matches), r.cur, cs)
                  \* an unbounded loop that is back in the state it was in
                  ELSE IF n.max = NoMax /\ r.cur = c THEN Hang(r.cur, cs)
                  ELSE RepeatNode_max(data, n, rm, k + 1, r.cur, matches, cs)

\* "get up to minimum" without its backtrack
RepeatNode_min_nobacktrack(data, n, rm, k, c, save, matches, calls) ==
    IF k >= n.min
    THEN RepeatNode_max(data, n, rm, 0, c, matches, calls)
    ELSE LET r == GrammarNode_call(data, n.subs[1], c, NoMode)
             cs == calls \o r.calls
         IN  IF r.st # "ok" THEN [r EXCEPT !.calls = cs]
             ELSE IF IsNoMatch(r.val) THEN Return(NOMATCH, r.cur, cs)
             ELSE RepeatNode_min(data, n, rm, k + 1, r.cur, save,
                                 Append(matches, r.val), cs)

\* "get up to minimum": k is the number of iterations already made
RepeatNode_min(data, n, rm, k, c, save, matches, calls) ==
    IF k >= n.min
    THEN RepeatNode_max(data, n, rm, 0, c, matches, calls)
    ELSE LET r == GrammarNode_call(data, n.subs[1], c, NoMode)
             cs == calls \o r.calls
         IN  IF r.st # "ok" THEN [r EXCEPT !.calls = cs]
             ELSE IF IsNoMatch(r.val)
                  THEN Return(NOMATCH, load_loc(r.cur, save), cs)
                  ELSE RepeatNode_min(data, n, rm, k + 1, r.cur, save,
                                      Append(matches, r.val), cs)

RepeatNode_match(data, n, c, rm) ==
    RepeatNode_min(data, n, rm, 0, c, save_loc(c), <<>>, <<>>)

\* The match of a node, by its class
GrammarNode_match(data, n, c, rm) ==
    CASE n.kind = "Pattern" -> PatternNode_match(data, n, c, rm)
      [] n.kind = "True"    -> TrueNode_match(data, n, c)
      [] n.kind = "False"   -> FalseNode_match(data, n, c)
      [] n.kind = "Not"     -> NotNode_match(data, n, c)
      [] n.kind = "Union"   -> UnionNode_match(data, n, c, rm)
      [] n.kind = "List"    -> ListNode_match(data, n, c, rm)
      [] n.kind = "Repeat"  -> RepeatNode_match(data, n, c, rm)

\* GrammarNode.__call__ without the check of .failure
GrammarNode_call_nocheck(data, n, c, return_mode) ==
    LET rm == IF ReturnMode(n.kind) = {} THEN NoMode
              ELSE IF return_mode = NoMode THEN n.mode
              ELSE return_mode
        r == GrammarNode_match(data, n, c, rm)
    IN  [r EXCEPT !.calls = <<n.name>> \o r.calls]

\* GrammarNode.__call__ (grammar/nodes/__init__.py)
GrammarNode_call(data, n, c, return_mode) ==
    IF n.failure # Ready
    THEN Raise(Exc("NodeNotReadyException", n.name, n.failure), c, <<n.name>>)
    ELSE LET rm == IF ReturnMode(n.kind) = {} THEN NoMode
                   ELSE IF return_mode = NoMode THEN n.mode
                   ELSE return_mode
             r == GrammarNode_match(data, n, c, rm)
         IN  IF ReturnMode(n.kind) # {} /\ rm \notin ReturnMode(n.kind)
             THEN Raise(Exc("TypeError", n.name, "None"), c, <<n.name>>)
             ELSE [r EXCEPT !.calls = <<n.name>> \o r.calls]

----------------------------------------------------------------------------
(* The nodes of grammar/nodes/base.py and lib/nodes: GrammarMark, mixins   *)

RECURSIVE lib_call(_, _, _, _)

\* GrammarNode.check(for_match=True) (base.py)
GrammarNode_check(n) == n.failure = Ready

\* PatternNode.match (lib/nodes/flat.py): with no return mode at all no
\* case of the match statement applies and the method returns None.
lib_PatternNode_match(data, n, c, rm) ==
    IF ~Matches(data, c, n.lit) THEN Return(NOMATCH, c, <<>>)
    ELSE LET c2 == StaticLCNo_call(data, c, n.lit)
         IN  CASE rm = "MATCH" -> Return(ReMatch(n.lit), c2, <<>>)
               [] rm = "DICT"  -> Return(Dict(<<>>, <<>>), c2, <<>>)
               [] rm = "SEQ"   -> Return(Tuple(<<>>), c2, <<>>)
               [] rm = "FULL"  -> Return(Bytes(n.lit), c2, <<>>)
               [] OTHER        -> Return(None, c2, <<>>)

\* NotNode.match (lib/nodes/meta.py)
lib_NotNode_match(data, n, c) ==
    LET save == save_loc(c)
        r == lib_call(data, n.subs[1], c, NoMode)
    IN  IF r.st # "ok" THEN r
        ELSE IF IsNoMatch(r.val) THEN Return(n.val, r.cur, r.calls)
        ELSE Return(NOMATCH, load_loc(r.cur, save), r.calls)

\* The match of a node, by its class
lib_match(data, n, c, rm) ==
    CASE n.kind = "Pattern" -> lib_PatternNode_match(data, n, c, rm)
      [] n.kind = "True"    -> Return(n.val, c, <<>>)
      [] n.kind = "False"   -> Return(NOMATCH, c, <<>>)
      [] n.kind = "Not"     -> lib_NotNode_match(data, n, c)

\* GrammarNode.__call__ (base.py): check(for_match=True), then the match
base_GrammarNode_call(data, n, c, rm) ==
    IF ~GrammarNode_check(n)
    THEN Raise(Exc("NodeNotReadyException", n.name, n.failure), c, <<n.name>>)
    ELSE LET r == lib_match(data, n, c, rm)
         IN  [r EXCEPT !.calls = <<n.name>> \o r.calls]

\* NodeWithReturnMode.__call__ (base.py): the value of super().__call__ is
\* not returned
NodeWithReturnMode_call(data, n, c, return_mode) ==
    LET r == base_GrammarNode_call(data, n, c,
                 IF return_mode = NoMode THEN n.mode ELSE return_mode)
    IN  IF r.st = "ok" THEN [r EXCEPT !.val = None] ELSE r

\* node(on, return_mode=...), for a node or for the None that check_node
\* leaves in place of a sub-node; check() of a node without a return mode
\* takes no return_mode.
lib_call(data, n, c, return_mode) ==
    CASE n.kind = "Null"    -> Raise(Exc("TypeError", n.name, "None"), c, <<>>)
      [] n.kind = "Pattern" -> NodeWithReturnMode_call(data, n, c, return_mode)
      [] OTHER              ->
            IF return_mode # NoMode
            THEN Raise(Exc("TypeError", n.name, "None"), c, <<>>)
            ELSE base_GrammarNode_call(data, n, c, NoMode)

----------------------------------------------------------------------------
(* The nodes of src/caustic/lexer/nodes.py, on a SimpleBufferMatcher       *)

NoName  == "<None>"   \* name is None
NoGroup == -1         \* group is None

XNode(kind, id, name, nodes, keep_whitespace, min, max, string, group, val) ==
    [kind |-> kind, id |-> id, name |-> name, nodes |-> nodes,
     keep_whitespace |-> keep_whitespace, min |-> min, max |-> max,
     string |-> string, group |-> group, val |-> val]

\* The cursor of the buffer matcher at an offset: the line is the number of
\* newlines before the offset plus one, the column the distance to the most
\* recent newline (or to the start of the buffer).
bm_at(data, pos) ==
    [pos |-> pos,
     lno |-> CountNL(data, pos) + 1,
     cno |-> IF RIndexNL(data, pos) = -1 THEN pos ELSE pos - RIndexNL(data, pos)]

save_pos(c) == c
load_pos(c, saved) == saved

\* bm.match(bytes or the pattern of a literal): the offset moves past it
bm_matches(data, c, lit) == StartsWith(PySliceFrom(data, c.pos), lit)
bm_match(data, c, lit) ==
    IF bm_matches(data, c, lit) THEN bm_at(data, c.pos + Len(lit)) ELSE c

\* bm.match(WHITESPACE_PATT), the pattern \s+
IsSpace(b) == b \in {SP, NL}
RECURSIVE SpaceRun(_, _)
SpaceRun(data, pos) ==
    IF pos < Len(data) /\ IsSpace(data[pos + 1]) THEN 1 + SpaceRun(data, pos + 1)
    ELSE 0
bm_match_whitespace(data, c) ==
    IF SpaceRun(data, c.pos) = 0 THEN c
    ELSE bm_at(data, c.pos + SpaceRun(data, c.pos))

\* bool(value)
Falsy(v) ==
    \/ v.t = "None"
    \/ v.t = "bytes" /\ v.b = <<>>
    \/ v.t \in {"list", "tuple"} /\ v.v = <<>>
    \/ v.t = "dict" /\ v.k = <<>>
    \/ v.t = "int" /\ v.n = 0

\* d[key] = val
DictSet(d, key, val) ==
    LET at == {j \in 1..Len(d.k) : d.k[j] = key}
    IN  IF at = {} THEN Dict(Append(d.k, key), Append(d.v, val))
        ELSE Dict(d.k, [d.v EXCEPT ![CHOOSE j \in at : TRUE] = val])

RECURSIVE Node_call(_, _, _)
RECURSIVE NodeGroup_loop(_, _, _, _, _, _, _, _, _)
RECURSIVE NodeUnion_loop(_, _, _, _, _)
RECURSIVE NodeRange_min(_, _, _, _, _, _)
RECURSIVE NodeRange_max(_, _, _, _, _, _)

\* NodeGroup.__call__, "Check how we should return results"
NodeGroup_results(results, single_result, name, r) ==
    IF name = NoName
    THEN IF results.t = "dict" THEN [st |-> "ok", results |-> results, single |-> single_result]
         ELSE IF ~single_result
              THEN [st |-> "ok", results |-> List(Append(results.v, r)), single |-> single_result]
              ELSE [st |-> "ok", results |-> results, single |-> single_result]
    ELSE IF name # ""
    THEN IF results.t = "dict"
         THEN [st |-> "ok", results |-> DictSet(results, name, r), single |-> single_result]
         ELSE IF single_result
              THEN [st |-> "TypeError", results |-> results, single |-> single_result]
              ELSE [st |-> "ok", results |-> Dict(<<name>>, <<r>>), single |-> single_result]
    ELSE IF results.t = "dict"
         THEN [st |-> "TypeError", results |-> results, single |-> single_result]
         ELSE [st |-> "ok", results |-> r, single |-> TRUE]

\* A group that backtracks past its stealer
RECURSIVE NodeGroup_loop_backtracks(_, _, _, _, _, _, _, _, _)
NodeGroup_loop_backtracks(data, n, i, c, save, results, single_result, stealer, calls) ==
    IF i > Len(n.nodes)
    THEN Return(IF Falsy(results) THEN None ELSE results, c, calls)
    ELSE LET c1 == IF ~n.keep_whitespace THEN bm_match_whitespace(data, c) ELSE c
             ch == n.nodes[i]
         IN  IF ch.kind = "Stealer"
             THEN IF i = 1
                  THEN Raise(Exc("SyntaxError", n.id, "None"), c1, calls)
                  ELSE NodeGroup_loop_backtracks(data, n, i + 1, c1, save, results,
                                                 single_result, TRUE, calls)
             ELSE LET r == Node_call(data, ch, c1)
                      cs == calls \o r.calls
                  IN  IF r.st = "raise" /\ r.exc.type = "NodeSyntaxError"
                      THEN Raise(Exc("NodeSyntaxError", n.id, "NodeSyntaxError"), r.cur, cs)
                      ELSE IF r.st # "ok" THEN [r EXCEPT !.calls = cs]
                      ELSE IF IsNoMatch(r.val)
                      THEN Return(NOMATCH, load_pos(r.cur, save), cs)
                      ELSE LET s == NodeGroup_results(results, single_result, ch.name, r.val)
                           IN  IF s.st # "ok"
                               THEN Raise(Exc("TypeError", n.id, "None"), r.cur, cs)
                               ELSE NodeGroup_loop_backtracks(data, n, i + 1, r.cur, save,
                                                   s.results, s.single, stealer, cs)

\* NodeGroup.__call__
NodeGroup_loop(data, n, i, c, save, results, single_result, stealer, calls) ==
    IF i > Len(n.nodes)
    THEN Return(IF Falsy(results) THEN None ELSE results, c, calls)
    ELSE LET c1 == IF ~n.keep_whitespace THEN bm_match_whitespace(data, c) ELSE c
             ch == n.nodes[i]
         IN  IF ch.kind = "Stealer"
             THEN IF i = 1
                  THEN Raise(Exc("SyntaxError", n.id, "None"), c1, calls)
                  ELSE NodeGroup_loop(data, n, i + 1, c1, save, results,
                                      single_result, TRUE, calls)
             ELSE LET r == Node_call(data, ch, c1)
                      cs == calls \o r.calls
                  IN  IF r.st = "raise" /\ r.exc.type = "NodeSyntaxError"
                      THEN Raise(Exc("NodeSyntaxError", n.id, "NodeSyntaxError"), r.cur, cs)
                      ELSE IF r.st # "ok" THEN [r EXCEPT !.calls = cs]
                      ELSE IF IsNoMatch(r.val)
                      THEN IF ~stealer
                           THEN Return(NOMATCH, load_pos(r.cur, save), cs)
                           ELSE Raise(Exc("NodeSyntaxError", n.id, "NodeSyntaxError"), r.cur, cs)
                      ELSE LET s == NodeGroup_results(results, single_result, ch.name, r.val)
                           IN  IF s.st # "ok"
                               THEN Raise(Exc("TypeError", n.id, "None"), r.cur, cs)
                               ELSE NodeGroup_loop(data, n, i + 1, r.cur, save,
                                                   s.results, s.single, stealer, cs)

NodeGroup_call(data, n, c) ==
    NodeGroup_loop(data, n, 1, c, save_pos(c), List(<<>>), FALSE, FALSE, <<>>)

\* A union that takes an exception of an alternative for NO_RETURN
RECURSIVE NodeUnion_loop_swallows(_, _, _, _, _)
NodeUnion_loop_swallows(data, n, i, c, calls) ==
    IF i > Len(n.nodes) THEN Return(NOMATCH, c, calls)
    ELSE LET r == Node_call(data, n.nodes[i], c)
             cs == calls \o r.calls
         IN  IF r.st = "ok" /\ ~IsNoMatch(r.val) THEN Return(r.val, r.cur, cs)
             ELSE NodeUnion_loop_swallows(data, n, i + 1, r.cur, cs)

\* NodeUnion.__call__
NodeUnion_loop(data, n, i, c, calls) ==
    IF i > Len(n.nodes) THEN Return(NOMATCH, c, calls)
    ELSE LET r == Node_call(data, n.nodes[i], c)
             cs == calls \o r.calls
         IN  IF r.st # "ok" THEN [r EXCEPT !.calls = cs]
             ELSE IF ~IsNoMatch(r.val) THEN Return(r.val, r.cur, cs)
             ELSE NodeUnion_loop(data, n, i + 1, r.cur, cs)

NodeUnion_call(data, n, c) == NodeUnion_loop(data, n, 1, c, <<>>)

\* NodeRange.__call__, after the first min matches; k counts the iterations
NodeRange_max(data, n, k, c, results, calls) ==
    IF n.max # NoMax /\ n.min + k >= n.max
    THEN Return(List(results), c, calls)
    ELSE LET r == Node_call(data, n.nodes[1], c)
             cs == calls \o r.calls
         IN  IF r.st # "ok" THEN [r EXCEPT !.calls = cs]
             ELSE IF IsNoMatch(r.val) THEN Return(List(results), r.cur, cs)
             \* an unbounded loop that is back at the cursor it started from
             ELSE IF n.max = NoMax /\ r.cur = c THEN Hang(r.cur, cs)
             ELSE NodeRange_max(data, n, k + 1, r.cur, Append(results, r.val), cs)

\* NodeRange.__call__, the first min matches
NodeRange_min(data, n, k, c, results, calls) ==
    IF k >= n.min THEN NodeRange_max(data, n, 0, c, results, calls)
    ELSE LET r == Node_call(data, n.nodes[1], c)
             cs == calls \o r.calls
         IN  IF r.st # "ok" THEN [r EXCEPT !.calls = cs]
             ELSE IF IsNoMatch(r.val)
                  \* self.load_pos(): a NodeRange has no load_pos
                  THEN Raise(Exc("AttributeError", n.id, "None"), r.cur, cs)
                  ELSE NodeRange_min(data, n, k + 1, r.cur, Append(results, r.val), cs)

NodeRange_call(data, n, c) == NodeRange_min(data, n, 0, c, <<>>, <<>>)

\* StringNode.__call__
StringNode_call(data, n, c) ==
    IF bm_matches(data, c, n.string)
    THEN Return(Bytes(n.string), bm_match(data, c, n.string), <<>>)
    ELSE Return(NOMATCH, c, <<>>)

\* PatternNode.__call__, for the pattern of the literal n.string, whose only
\* group is group 0
XPatternNode_call(data, n, c) ==
    IF bm_matches(data, c, n.string)
    THEN Return(IF n.group # NoGroup /\ n.group # 0 THEN Bytes(n.string)
                ELSE ReMatch(n.string),
                bm_match(data, c, n.string), <<>>)
    ELSE Return(NOMATCH, c, <<>>)

\* Context.__call__
Context_call(data, n, c) == Return(n.val, c, <<>>)

\* Stealer.__call__
Stealer_call(data, n, c) == Raise(Exc("TypeError", n.id, "None"), c, <<>>)

\* NodeRef.__call__: the target is n.nodes[1], or is not bound
NodeRef_call(data, n, c) ==
    IF n.nodes = <<>> THEN Raise(Exc("TypeError", n.id, "None"), c, <<>>)
    ELSE Node_call(data, n.nodes[1], c)

\* n(bm), by the class of n
Node_call(data, n, c) ==
    LET r == CASE n.kind = "Group"   -> NodeGroup_call(data, n, c)
               [] n.kind = "Union"   -> NodeUnion_call(data, n, c)
               [] n.kind = "Range"   -> NodeRange_call(data, n, c)
               [] n.kind = "String"  -> StringNode_call(data, n, c)
               [] n.kind = "Pattern" -> XPatternNode_call(data, n, c)
               [] n.kind = "Context" -> Context_call(data, n, c)
               [] n.kind = "Stealer" -> Stealer_call(data, n, c)
               [] n.kind = "NodeRef" -> NodeRef_call(data, n, c)
    IN  [r EXCEPT !.calls = <<n.id>> \o r.calls]

----------------------------------------------------------------------------
(* The inputs of a match: buffers, and trees of nodes of each generation   *)

MaxLen == 3           \* the longest buffer of the enumeration

Alphabet == {"x", NL}

RECURSIVE SeqsUpTo(_, _)
SeqsUpTo(S, n) ==
    IF n = 0 THEN {<<>>}
    ELSE LET shorter == SeqsUpTo(S, n - 1)
         IN  shorter \cup {Append(q, b) : q \in {t \in shorter : Len(t) = n - 1}, b \in S}

\* Every buffer up to MaxLen, and the five matching bytes of the Repeat
\* scenario.
Buffers == SeqsUpTo(Alphabet, MaxLen) \cup {<<"x", "x", "x", "x", "x">>}

Val1 == IntVal(1)

\* --- grammar/nodes ---
GPattern(name, lit, failure) ==
    Node("Pattern", name, lit, <<>>, 0, NoMax, None, DefaultMode("Pattern"), failure)
GTrue   == Node("True", "t", <<>>, <<>>, 0, NoMax, Val1, NoMode, Ready)
GFalse  == Node("False", "f", <<>>, <<>>, 0, NoMax, None, NoMode, Ready)
GNot(name, sub) ==
    Node("Not", name, <<>>, <<sub>>, 0, NoMax, Val1, NoMode, Ready)
GRepeat(name, sub, min, max) ==
    Node("Repeat", name, <<>>, <<sub>>, min, max, None, DefaultMode("Repeat"), Ready)
GUnion(name, subs) ==
    Node("Union", name, <<>>, subs, 0, NoMax, None, DefaultMode("Union"), Ready)
GList(name, subs) ==
    Node("List", name, <<>>, subs, 0, NoMax, None, DefaultMode("List"), Ready)

px  == GPattern("px", <<"x">>, Ready)
pxx == GPattern("pxx", <<"x", "x">>, Ready)
pxn == GPattern("pxn", <<"x", NL>>, Ready)
\* a node whose compile failed
pbad == GPattern("pbad", <<"x">>, "ValueError")

GLeaves == {px, pxx, pxn, GTrue, GFalse, pbad}
GCore   == {px, pxx, GFalse}

\* (min, max) of the Repeat nodes
RepeatBounds == {<<0, NoMax>>, <<0, 1>>, <<1, NoMax>>, <<1, 2>>, <<2, NoMax>>, <<2, 4>>}

GComposites(subs, bounds, nm) ==
    {GNot(nm, d) : d \in subs}
    \cup {GRepeat(nm, d, b[1], b[2]) : d \in subs, b \in bounds}
    \cup {GUnion(nm, <<a, b>>) : a \in subs, b \in subs}
    \cup {GList(nm, <<a, b>>) : a \in subs, b \in subs}
    \cup {GList(nm, <<a>>) : a \in subs}
    \cup {GList(nm, <<>>)}

GDepth1 == GComposites(GLeaves, RepeatBounds, "n1")
GInner  == GComposites(GCore, {<<0, 1>>, <<1, NoMax>>}, "n1")
GDepth2 ==
    {GNot("n2", d) : d \in GInner}
    \cup {GRepeat("n2", d, b[1], b[2]) : d \in GInner, b \in {<<0, NoMax>>, <<2, 4>>}}
    \cup {GUnion("n2", <<d, a>>) : d \in GInner, a \in GCore}
    \cup {GList("n2", <<a, d>>) : d \in GInner, a \in GCore}
    \cup {GList("n2", <<d, a>>) : d \in GInner, a \in GCore}

\* nodes whose own compile failed, over sub-nodes of either state
GFailed ==
    {[n EXCEPT !.failure = "KeyError"] :
        n \in GComposites({pxx, pbad}, {<<1, NoMax>>}, "n1")}

GNodes == GLeaves \cup GDepth1 \cup GDepth2 \cup GFailed

\* The nodes that are also invoked with every configured return mode and
\* every return_mode argument.
GModed ==
    {pxx,
     GUnion("n1", <<px, pxx>>), GUnion("n1", <<pxx, px>>),
     GList("n1", <<pxx, pxx>>), GList("n1", <<pxx>>), GList("n1", <<>>),
     GRepeat("n1", pxx, 0, NoMax), GRepeat("n1", pxx, 2, 4), GRepeat("n1", px, 2, 4)}

\* (node, return_mode argument) of an invocation
GInputs ==
    {<<n, NoMode>> : n \in GNodes}
    \cup UNION {{<<[n EXCEPT !.mode = m], a>> :
                    m \in ReturnMode(n.kind), a \in {NoMode} \cup ReturnMode(n.kind)} :
                n \in GModed}

\* --- grammar/nodes/base.py and lib/nodes ---
LPattern(name, lit, mode, failure) ==
    Node("Pattern", name, lit, <<>>, 0, NoMax, None, mode, failure)
LTrue(failure)  == Node("True", "t", <<>>, <<>>, 0, NoMax, Val1, NoMode, failure)
LFalse(failure) == Node("False", "f", <<>>, <<>>, 0, NoMax, None, NoMode, failure)
LNot(name, sub, failure) ==
    Node("Not", name, <<>>, <<sub>>, 0, NoMax, Val1, NoMode, failure)
\* the None that check_node stores for a sub-node it could not resolve
LNull == Node("Null", "null", <<>>, <<>>, 0, NoMax, None, NoMode, Ready)

Failures == {Ready, "ReferenceError"}

LLeaves ==
    {LPattern("p", lit, m, f) :
        lit \in {<<"x">>, <<"x", "x">>, <<"x", NL>>},
        m \in {NoMode} \cup ReturnMode("Pattern"), f \in Failures}
    \cup {LTrue(f) : f \in Failures} \cup {LFalse(f) : f \in Failures}

LDepth1 == {LNot("n1", d, f) : d \in LLeaves \cup {LNull}, f \in Failures}
LDepth2 == {LNot("n2", d, Ready) : d \in LDepth1}

LNodes == LLeaves \cup LDepth1 \cup LDepth2

LInputs ==
    {<<n, NoMode>> : n \in LNodes}
    \cup {<<n, a>> : n \in {d \in LLeaves : d.kind = "Pattern"}, a \in ReturnMode("Pattern")}

\* --- src/caustic/lexer/nodes.py ---
XString(id, name, string) ==
    XNode("String", id, name, <<>>, FALSE, 0, NoMax, string, NoGroup, None)
XPattern(id, name, string, group) ==
    XNode("Pattern", id, name, <<>>, FALSE, 0, NoMax, string, group, None)
XContext(id, name, val) ==
    XNode("Context", id, name, <<>>, FALSE, 0, NoMax, <<>>, NoGroup, val)
XStealer == XNode("Stealer", "!", NoName, <<>>, FALSE, 0, NoMax, <<>>, NoGroup, None)
XGroup(id, name, nodes, keep_whitespace) ==
    XNode("Group", id, name, nodes, keep_whitespace, 0, NoMax, <<>>, NoGroup, None)
XUnion(id, name, nodes) ==
    XNode("Union", id, name, nodes, FALSE, 0, NoMax, <<>>, NoGroup, None)
XRange(id, name, sub, min, max) ==
    XNode("Range", id, name, <<sub>>, FALSE, min, max, <<>>, NoGroup, None)
XRef(id, name, targets) ==
    XNode("NodeRef", id, name, targets, FALSE, 0, NoMax, <<>>, NoGroup, None)

XNames == {NoName, "", "a"}

XLeaves ==
    {XString("sx", nm, <<"x">>) : nm \in XNames}
    \cup {XString("sxx", NoName, <<"x", "x">>), XString("sn", NoName, <<NL>>),
          XPattern("rx", NoName, <<"x">>, NoGroup), XContext("c", NoName, Val1)}
XCore == {XString("sx", NoName, <<"x">>), XString("sxx", NoName, <<"x", "x">>),
          XContext("c", NoName, Val1)}

XComposites(subs, id) ==
    {XGroup(id, NoName, <<a, b>>, kw) : a \in subs, b \in subs, kw \in BOOLEAN}
    \cup {XGroup(id, NoName, <<a, XStealer, b>>, kw) : a \in subs, b \in subs, kw \in BOOLEAN}
    \cup {XGroup(id, NoName, q, FALSE) : q \in {<<>>, <<XStealer>>}}
    \cup {XUnion(id, NoName, <<a, b>>) : a \in subs, b \in subs}
    \cup {XRange(id, NoName, a, b[1], b[2]) : a \in subs, b \in RepeatBounds}
    \cup {XRef(id, NoName, <<a>>) : a \in subs}
    \cup {XRef(id, NoName, <<>>)}

XDepth1 == XComposites(XLeaves, "g1")
XInner  == XComposites(XCore, "g1")
XDepth2 ==
    {XGroup("g2", NoName, <<a, d>>, kw) : a \in XCore, d \in XInner, kw \in BOOLEAN}
    \cup {XGroup("g2", NoName, <<d, a>>, FALSE) : a \in XCore, d \in XInner}
    \cup {XUnion("g2", NoName, <<d, a>>) : a \in XCore, d \in XInner}
    \cup {XRange("g2", NoName, d, b[1], b[2]) : d \in XInner, b \in {<<0, NoMax>>, <<2, 4>>}}

XNodes == XLeaves \cup XDepth1 \cup XDepth2

----------------------------------------------------------------------------
(* The Grammar of grammar/__init__.py and the compile of its nodes         *)

\* BASE_COMPILE_ORDER_HINT of the node classes
NeverNestedNode_HINT  == -100
SingleNestedNode_HINT == 100
TrueNode_HINT         == -900

\* The node objects the operations are applied to, of the classes of
\* lib/nodes: a PatternNode and a TrueNode that both go by the name B, a
\* NotNode A over the node of that name, a NotNode C over A (a chain), and
\* a NotNode that goes by the name B over A (a cycle with A).  sub is the
\* name of the sub-node, or of the pattern of a PatternNode.
Catalogue ==
    << [kind |-> "Pattern", name |-> "B", sub |-> "p"],
       [kind |-> "True",    name |-> "B", sub |-> ""],
       [kind |-> "Not",     name |-> "A", sub |-> "B"],
       [kind |-> "Not",     name |-> "C", sub |-> "A"],
       [kind |-> "Not",     name |-> "B", sub |-> "A"] >>

ObjIds == DOMAIN Catalogue
Names  == {Catalogue[o].name : o \in ObjIds}
PatternNames == {"p"}
NoObj  == 0           \* None, or no entry under the name

BaseHint(o) ==
    CASE Catalogue[o].kind = "True"    -> TrueNode_HINT
      [] Catalogue[o].kind = "Pattern" -> NeverNestedNode_HINT
      [] Catalogue[o].kind = "Not"     -> SingleNestedNode_HINT

\* GrammarNode.__init__ with the pre_setup and setup of the class
NewObj(o) ==
    [bound   |-> FALSE,
     failure |-> IF Catalogue[o].kind = "True" THEN Ready
                 ELSE "NodeNotReadyException",
     hint    |-> BaseHint(o),
     node    |-> NoObj]

\* What an operation on the grammar produced: st is "ok" or the exception
\* raised; val is the set Grammar.compile returned, cands the names it
\* compiled, all whether it was called for all names; compiled says that the
\* operation ended with a Grammar.compile that returned.
Ret(op, st, val, cands, all, compiled) ==
    [op |-> op, st |-> st, val |-> val, cands |-> cands, all |-> all,
     compiled |-> compiled]
NoRet == Ret("new", "ok", {}, {}, FALSE, FALSE)

\* patterns.is_complete(name) of the pattern registry
is_complete(patts, name) == name \in patts

\* GrammarNode.check_unbound, as a test
check_unbound(os, o) == ~os[o].bound

\* node.compile(): the objects afterwards, and "ok" or the exception raised
\*   TrueNode: GrammarNode.compile does nothing
\*   PatternNode.compile (lib/nodes/flat.py)
\*   NotNode: SingleNestedNode.compile with check_node (base.py)
node_compile(os, gn, patts, o) ==
    LET c == Catalogue[o]
    IN  CASE c.kind = "True" -> [objs |-> os, st |-> "ok"]
          [] c.kind = "Pattern" ->
                IF check_unbound(os, o)
                THEN [objs |-> [os EXCEPT ![o].failure = "ReferenceError"], st |-> "ok"]
                ELSE IF ~is_complete(patts, c.sub)
                THEN [objs |-> [os EXCEPT ![o].failure = "ValueError"], st |-> "ok"]
                ELSE [objs |-> [os EXCEPT ![o].failure = Ready], st |-> "ok"]
          [] c.kind = "Not" ->
                LET o1 == [os EXCEPT ![o].failure = Ready]
                    t  == gn[c.sub]
                IN  IF check_unbound(o1, o)
                    THEN [objs |-> [o1 EXCEPT ![o].failure = "ReferenceError"], st |-> "ok"]
                    \* self.bound.nodes.get(name, None).check_unbound()
                    ELSE IF t = NoObj THEN [objs |-> o1, st |-> "AttributeError"]
                    \* the sub-node is unbound: its failure is set, not ours
                    ELSE IF check_unbound(o1, t)
                    THEN [objs |-> [o1 EXCEPT ![t].failure = "ReferenceError",
                                              ![o].node = NoObj],
                          st |-> "ok"]
                    ELSE IF o1[t].failure # Ready
                    THEN [objs |-> [o1 EXCEPT ![o].failure = "DependencyNodeNotReadyError",
                                              ![o].node = NoObj],
                          st |-> "ok"]
                    ELSE [objs |-> [o1 EXCEPT ![o].node = t], st |-> "ok"]

\* sorted(..., key=compile_order_hint) of a set of names: every order by
\* ascending hint; nodes of equal hint come in the order the set yields them.
RECURSIVE SortedByHint(_, _, _)
SortedByHint(os, gn, todo) ==
    IF todo = {} THEN {<<>>}
    ELSE LET lowest == {n \in todo : \A m \in todo : os[gn[n]].hint <= os[gn[m]].hint}
         IN  UNION {{<<n>> \o q : q \in SortedByHint(os, gn, todo \ {n})} : n \in lowest}

\* The for loop of Grammar.compile over one sorted list
RECURSIVE compile_pass(_, _, _, _, _, _)
compile_pass(os, gn, patts, order, i, successes) ==
    IF i > Len(order) THEN [objs |-> os, st |-> "ok", successes |-> successes]
    ELSE LET o == gn[order[i]]
             r == node_compile(os, gn, patts, o)
         IN  IF r.st # "ok" THEN [objs |-> r.objs, st |-> r.st, successes |-> successes]
             ELSE IF r.objs[o].failure = Ready
             THEN compile_pass(r.objs, gn, patts, order, i + 1, successes \cup {order[i]})
             ELSE compile_pass([r.objs EXCEPT ![o].hint = @ + 1], gn, patts, order,
                               i + 1, successes)

\* The while loop of Grammar.compile: every outcome it can have, with the
\* number of passes of the for loop it took
RECURSIVE compile_loop(_, _, _, _, _)
compile_loop(os, gn, patts, nodes, successes) ==
    UNION {LET r == compile_pass(os, gn, patts, order, 1, successes)
           IN  IF r.st # "ok"
               THEN {[objs |-> r.objs, st |-> r.st, val |-> {}, passes |-> 1]}
               ELSE IF Cardinality(r.successes) = Cardinality(successes)
               THEN {[objs |-> r.objs, st |-> "ok", val |-> nodes \ r.successes,
                      passes |-> 1]}
               ELSE {[q EXCEPT !.passes = @ + 1] :
                        q \in compile_loop(r.objs, gn, patts, nodes, r.successes)} :
           order \in SortedByHint(os, gn, nodes \ successes)}

\* Grammar.compile(names, needed=needed): every outcome, with the names it
\* went to compile.  A name that is not in the grammar is a KeyError.
Grammar_compile(os, gn, patts, names, needed) ==
    IF \E n \in names : gn[n] = NoObj
    THEN {[objs |-> os, st |-> "KeyError", val |-> {}, cands |-> {}, passes |-> 0]}
    ELSE LET nodes == IF needed THEN {n \in names : os[gn[n]].failure # Ready}
                      ELSE names
         IN  {[objs |-> r.objs, st |-> r.st, val |-> r.val, cands |-> nodes,
               passes |-> r.passes] :
                 r \in compile_loop(os, gn, patts, nodes, {})}

\* Grammar.nodes.keys()
AllNames(gn) == {n \in Names : gn[n] # NoObj}

\* Grammar.node_stat with the sets of the tuple exchanged
node_stat_exchanged(os, gn, nodes) ==
    IF \E n \in nodes : gn[n] = NoObj THEN [st |-> "KeyError", val |-> <<{}, {}>>]
    ELSE LET succs == {n \in nodes : os[gn[n]].failure = Ready}
         IN  [st |-> "ok", val |-> <<nodes \ succs, succs>>]

\* Grammar.node_stat(nodes) for the frozenset of the names asked for:
\* (succs, nodes - succs), or the KeyError of self.nodes[n]
node_stat(os, gn, nodes) ==
    IF \E n \in nodes : gn[n] = NoObj THEN [st |-> "KeyError", val |-> <<{}, {}>>]
    ELSE LET succs == {n \in nodes : os[gn[n]].failure = Ready}
         IN  [st |-> "ok", val |-> <<succs, nodes \ succs>>]

----------------------------------------------------------------------------
(* The state machine of one invocation of a node on a buffer               *)

NoResult == Return(None, StaticLCNo_init, <<>>)

\* A fresh StaticLCNo matcher stepped to an offset of its buffer, and a
\* matcher of the lexer at an offset of its buffer.
Init ==
    /\ fam \in {"G", "L", "X"}
    /\ buf \in Buffers
    /\ \E p \in 0..Len(buf) :
          entry = IF fam = "X" THEN bm_at(buf, p)
                  ELSE StaticLCNo_step(buf, StaticLCNo_init, p)
    /\ node \in CASE fam = "G" -> GInputs
                  [] fam = "L" -> LInputs
                  [] fam = "X" -> {<<n, NoMode>> : n \in XNodes}
    /\ cur = entry
    /\ res = NoResult
    /\ pc = "ready"
    /\ objs = [o \in ObjIds |-> NewObj(o)]
    /\ gnodes = [n \in Names |-> NoObj]
    /\ patterns = {}
    /\ ret = NoRet

\* node(on, return_mode=...) on the nodes of grammar/nodes
CallG ==
    /\ pc = "ready" /\ fam = "G"
    /\ res' = GrammarNode_call(buf, node[1], cur, node[2])
    /\ cur' = res'.cur
    /\ pc' = "done"
    /\ UNCHANGED <<fam, node, buf, entry>>
    /\ UNCHANGED gvars

\* node(on, return_mode=...) on the nodes of base.py and lib/nodes
CallL ==
    /\ pc = "ready" /\ fam = "L"
    /\ res' = lib_call(buf, node[1], cur, node[2])
    /\ cur' = res'.cur
    /\ pc' = "done"
    /\ UNCHANGED <<fam, node, buf, entry>>
    /\ UNCHANGED gvars

\* node(bm) on the nodes of the lexer
CallX ==
    /\ pc = "ready" /\ fam = "X"
    /\ res' = Node_call(buf, node[1], cur)
    /\ cur' = res'.cur
    /\ pc' = "done"
    /\ UNCHANGED <<fam, node, buf, entry>>
    /\ UNCHANGED gvars

Next == CallG \/ CallL \/ CallX

Spec == Init /\ [][Next]_vars

----------------------------------------------------------------------------
(* Properties of one invocation                                            *)

\* The node invoked has no failure (the nodes of the lexer have no such field)
TopReady == fam = "X" \/ node[1].failure = Ready

\* The return mode the match runs with
EffectiveMode == IF node[2] = NoMode THEN node[1].mode ELSE node[2]

\* s[1].calls \o ... \o s[k].calls
RECURSIVE CallsUpTo(_, _)
CallsUpTo(s, k) == IF k = 0 THEN <<>> ELSE CallsUpTo(s, k - 1) \o s[k].calls

\* Every node of a tree of grammar/nodes or lib/nodes
RECURSIVE NodesOf(_)
NodesOf(n) == {n} \cup UNION {NodesOf(n.subs[i]) : i \in DOMAIN n.subs}

\* C1: whenever the invocation of a ready node, of any kind and nesting,
\* returns NO_MATCH, the cursor has the offset, line and column it had
\* before the call.
C1_NoMatchLeavesCursor ==
    (pc = "done" /\ TopReady /\ res.st = "ok" /\ IsNoMatch(res.val))
        => (cur.pos = entry.pos /\ cur.lno = entry.lno /\ cur.cno = entry.cno)

\* A Repeat of at least two "xx" entered at offset 1 of "xxx": the first
\* occurrence is consumed, the second fails, and NO_MATCH comes back.
C1_Witness ==
    /\ pc = "done" /\ fam = "G"
    /\ node[1].kind = "Repeat" /\ node[1].min = 2 /\ node[1].subs[1] = pxx
    /\ buf = <<"x", "x", "x">> /\ entry.pos = 1
    /\ res.st = "ok" /\ IsNoMatch(res.val)
    /\ res.calls = <<node[1].name, "pxx", "pxx">>
    /\ cur = entry

\* The first sub-node of a two-node Sequence, then the second from where the
\* first stopped; a NodeGroup skips whitespace before each of them unless it
\* keeps whitespace.
SeqSkip(c) ==
    IF fam = "X" /\ ~node[1].keep_whitespace THEN bm_match_whitespace(buf, c) ELSE c
SeqSub(i) == IF fam = "X" THEN node[1].nodes[i] ELSE node[1].subs[i]
SeqCall(i, c) ==
    IF fam = "X" THEN Node_call(buf, SeqSub(i), SeqSkip(c))
    ELSE GrammarNode_call(buf, SeqSub(i), c, NoMode)
IsSeqOfTwo ==
    \/ fam = "G" /\ node[1].kind = "List" /\ Len(node[1].subs) = 2
    \/ fam = "X" /\ node[1].kind = "Group" /\ Len(node[1].nodes) = 2
            /\ \A i \in 1..2 : node[1].nodes[i].kind # "Stealer"
\* the first sub-node matches and consumes input, the second returns NO_MATCH
SeqPartial ==
    /\ IsSeqOfTwo /\ TopReady
    /\ LET a == SeqCall(1, entry)
       IN  /\ a.st = "ok" /\ ~IsNoMatch(a.val) /\ a.cur.pos > entry.pos
           /\ LET b == SeqCall(2, a.cur)
              IN  b.st = "ok" /\ IsNoMatch(b.val)

\* C2: a ready Sequence whose first sub-node matches and consumes input and
\* whose next sub-node returns NO_MATCH, no stealer crossed, returns NO_MATCH
\* with the cursor restored to where the Sequence was entered.
C2_SequenceBacktracks ==
    (pc = "done" /\ SeqPartial)
        => (res.st = "ok" /\ IsNoMatch(res.val) /\ cur = entry)

\* The sub-node of a Not node, invoked as Not invokes it
NotSub ==
    IF fam = "G" THEN GrammarNode_call(buf, node[1].subs[1], entry, NoMode)
    ELSE lib_call(buf, node[1].subs[1], entry, NoMode)
IsNot == fam \in {"G", "L"} /\ node[1].kind = "Not" /\ TopReady

\* C3: a ready Not node returns its configured value exactly when the
\* invocation of its sub-node returns NO_MATCH, and NO_MATCH when that
\* invocation returns anything else; in both cases the cursor after the call
\* is the cursor before it, also when the sub-node consumed bytes.
C3_NotInvertsAndRestores ==
    (pc = "done" /\ IsNot /\ NotSub.st = "ok")
        => /\ res.st = "ok"
           /\ cur = entry
           /\ IsNoMatch(NotSub.val) => res.val = node[1].val
           /\ ~IsNoMatch(NotSub.val) => IsNoMatch(res.val)
           /\ (res.val = node[1].val) <=> IsNoMatch(NotSub.val)

\* A Not whose sub-node matched and moved the cursor
C3_Witness ==
    /\ pc = "done" /\ IsNot /\ fam = "G"
    /\ NotSub.st = "ok" /\ ~IsNoMatch(NotSub.val) /\ NotSub.cur.pos > entry.pos
    /\ res.st = "ok" /\ IsNoMatch(res.val) /\ cur = entry

\* The sub-nodes of a Union as it iterates them, and each of them invoked
\* on its own at the cursor the Union was entered with
IsUnion == fam \in {"G", "X"} /\ node[1].kind = "Union" /\ TopReady /\ node[2] = NoMode
UnionSubs ==
    IF fam = "G" THEN FromKeys(node[1].subs, 1, <<>>) ELSE node[1].nodes
UnionAlone ==
    [i \in 1..Len(UnionSubs) |->
        IF fam = "G" THEN GrammarNode_call(buf, UnionSubs[i], entry, NoMode)
        ELSE Node_call(buf, UnionSubs[i], entry)]
\* the sub-nodes that do something else than return NO_MATCH
UnionHits ==
    {i \in 1..Len(UnionSubs) :
        ~(UnionAlone[i].st = "ok" /\ IsNoMatch(UnionAlone[i].val))}
UnionSelf == IF fam = "G" THEN node[1].name ELSE node[1].id

\* C4: a ready Union invokes its sub-nodes in declared order and stops at
\* the first that does not return NO_MATCH: it returns the result of that
\* sub-node, shaped by the return mode of the Union (a Union of the lexer
\* returns it as it is), leaves the cursor where that sub-node left it and
\* invokes no later sub-node; it returns NO_MATCH exactly when every sub-node
\* returned NO_MATCH.
C4_UnionFirstSuccess ==
    (pc = "done" /\ IsUnion /\ res.st = "ok")
        => IF UnionHits = {}
           THEN /\ IsNoMatch(res.val)
                /\ res.calls = <<UnionSelf>> \o CallsUpTo(UnionAlone, Len(UnionSubs))
           ELSE LET i == CHOOSE j \in UnionHits : \A k \in UnionHits : j <= k
                IN  /\ UnionAlone[i].st = "ok"
                    /\ res.val = IF fam = "G"
                                 THEN UnionNode_shape(node[1], UnionSubs[i].name,
                                                      UnionAlone[i].val)
                                 ELSE UnionAlone[i].val
                    /\ ~IsNoMatch(res.val)
                    /\ cur = UnionAlone[i].cur
                    /\ res.calls = <<UnionSelf>> \o CallsUpTo(UnionAlone, i)

\* A Union whose two sub-nodes would both match, in mode VAL: the first wins
C4_Witness ==
    /\ pc = "done" /\ IsUnion /\ fam = "G" /\ node[1].mode = "VAL"
    /\ Len(UnionSubs) = 2 /\ UnionHits = {1, 2}
    /\ UnionAlone[2].st = "ok" /\ UnionAlone[1].val # UnionAlone[2].val
    /\ res.st = "ok" /\ res.val = UnionAlone[1].val
    /\ res.calls = <<"n1", UnionSubs[1].name>>

\* The occurrences a Repeat finds: its sub-node invoked again and again from
\* cursor c until it fails or max are found; vals are the results so far.
RECURSIVE RepeatOccurrences(_, _, _, _)
RepeatOccurrences(sub, max, c, vals) ==
    IF max # NoMax /\ Len(vals) >= max THEN [vals |-> vals, cur |-> c]
    ELSE LET r == GrammarNode_call(buf, sub, c, NoMode)
         IN  IF r.st # "ok" \/ IsNoMatch(r.val) THEN [vals |-> vals, cur |-> r.cur]
             ELSE RepeatOccurrences(sub, max, r.cur, Append(vals, r.val))

IsRepeat == fam = "G" /\ node[1].kind = "Repeat" /\ TopReady

\* C5: a ready Repeat whose sub-node matches fewer than min consecutive
\* times restores the cursor and returns NO_MATCH; otherwise it matches
\* greedily until the sub-node fails or max occurrences are found, leaves the
\* cursor after the last occurrence, and returns the number of all
\* occurrences in mode COUNT and all of them in order in mode SEQ.
C5_RepeatGreedy ==
    (pc = "done" /\ IsRepeat /\ res.st = "ok")
        => LET occ == RepeatOccurrences(node[1].subs[1], node[1].max, entry, <<>>)
           IN  IF Len(occ.vals) < node[1].min
               THEN IsNoMatch(res.val) /\ cur = entry
               ELSE /\ cur = occ.cur
                    /\ EffectiveMode = "COUNT" => res.val = IntVal(Len(occ.vals))
                    /\ EffectiveMode = "SEQ" => res.val = Tuple(occ.vals)

\* C6: the call operator of a ready node of base.py returns exactly what
\* its match operation produces for the effective return mode, a result or
\* NO_MATCH, for the kinds with a return mode and those without.
C6_CallReturnsMatch ==
    (pc = "done" /\ fam = "L" /\ TopReady)
        => LET m == lib_match(buf, node[1], entry, EffectiveMode)
           IN  res.st = m.st /\ (m.st = "ok" => res.val = m.val)

\* The nodes of the invoked tree that have a failure, by name
FailedNodes == {m \in NodesOf(node[1]) : m.failure # Ready}
NotReadyError(m) == Exc("NodeNotReadyException", m.name, m.failure)

IsStealerGroup(n) ==
    n.kind = "Group" /\ Len(n.nodes) = 3 /\ n.nodes[2].kind = "Stealer"

\* The cursor after the whitespace a group discards before a node
GroupSkip(n, c) ==
    IF n.kind = "Group" /\ ~n.keep_whitespace THEN bm_match_whitespace(buf, c) ELSE c

\* A hard syntax error of the lexer
Fatal(r) == r.st = "raise" /\ r.exc.type = "NodeSyntaxError"

\* C25: in a group with a stealer, a sub-node before the stealer that returns
\* NO_RETURN makes the group restore the cursor and return NO_RETURN, and a
\* sub-node after the stealer that returns NO_RETURN makes the group raise
\* NodeSyntaxError instead.
C25_StealerEscalates ==
    (pc = "done" /\ fam = "X" /\ IsStealerGroup(node[1]))
        => LET n  == node[1]
               ra == Node_call(buf, n.nodes[1], GroupSkip(n, entry))
               rb == Node_call(buf, n.nodes[3], GroupSkip(n, ra.cur))
           IN  /\ (ra.st = "ok" /\ IsNoMatch(ra.val))
                    => /\ res.st = "ok" /\ res.val = NOMATCH
                       /\ cur = entry
               /\ (ra.st = "ok" /\ ~IsNoMatch(ra.val) /\ rb.st = "ok" /\ IsNoMatch(rb.val))
                    => Fatal(res)

\* A group that has moved the cursor and fails after its stealer
C25_Witness ==
    /\ pc = "done" /\ fam = "X" /\ IsStealerGroup(node[1])
    /\ Fatal(res)
    /\ cur.pos > entry.pos

\* C26: a NodeSyntaxError raised by a sub-node ends the whole match with a
\* NodeSyntaxError: a union tries no further alternative, a range does not
\* take it for the end of the repetition, and a group does not turn it into
\* NO_RETURN; no node is called after the one that raised.
C26_FatalPropagates ==
    (pc = "done" /\ fam = "X" /\ node[1].id = "g2")
        => LET n  == node[1]
               r1 == Node_call(buf, n.nodes[1], GroupSkip(n, entry))
               r2 == Node_call(buf, n.nodes[2], GroupSkip(n, r1.cur))
           IN  /\ Fatal(r1) => Fatal(res) /\ res.calls = <<n.id>> \o r1.calls
               /\ (n.kind = "Group" /\ r1.st = "ok" /\ ~IsNoMatch(r1.val) /\ Fatal(r2))
                    => Fatal(res) /\ res.calls = <<n.id>> \o r1.calls \o r2.calls

\* A union whose first alternative raised
C26_Witness ==
    /\ pc = "done" /\ fam = "X" /\ node[1].id = "g2" /\ node[1].kind = "Union"
    /\ Fatal(Node_call(buf, node[1].nodes[1], entry))
    /\ Fatal(res)

\* The invocation of the node on the same buffer and cursor, in the mode rm
\* given with the call, and of the node configured with rm and no mode given
CalledInMode(n, rm) ==
    IF fam = "G" THEN GrammarNode_call(buf, n, entry, rm)
    ELSE lib_call(buf, n, entry, rm)

\* C27: a ready node with a return mode that is invoked with a return mode
\* shapes its result by that mode whatever mode it is configured with, that
\* is, as the same node configured with that mode does; invoked without one
\* it shapes its result by the configured mode.
C27_CallModeOverrides ==
    (pc = "done" /\ fam \in {"G", "L"} /\ TopReady /\ ReturnMode(node[1].kind) # {})
        => IF node[2] = NoMode
           THEN res = CalledInMode(node[1], node[1].mode)
           ELSE res = CalledInMode([node[1] EXCEPT !.mode = node[2]], NoMode)

\* C33: a ready ListNode with no sub-nodes matches at every cursor without
\* moving it and returns None in every return mode, never NOMATCH; a ready
\* ListNode of one sub-node in the mode UNPACK returns what that sub-node
\* returned, bare.
C33_EmptyAndSingleList ==
    (pc = "done" /\ fam = "G" /\ node[1].kind = "List" /\ TopReady)
        => /\ node[1].subs = <<>>
                => res.st = "ok" /\ res.val = None /\ cur = entry
           /\ (Len(node[1].subs) = 1 /\ EffectiveMode = "UNPACK")
                => LET r == GrammarNode_call(buf, node[1].subs[1], entry, NoMode)
                   IN  (r.st = "ok" /\ ~IsNoMatch(r.val))
                         => res.st = "ok" /\ res.val = r.val /\ cur = r.cur

\* Nodes tagged with the empty name (":item"), of falsy and other values
BlankItems ==
    {XContext("c", "", v) : v \in {IntVal(0), Val1, Bytes(<<>>), List(<<>>), None}}
    \cup {XString("sx", "", <<"x">>),
          XRange("g0", "", XString("sx", NoName, <<"x">>), 0, NoMax)}

\* C35: a group that holds an item tagged with the empty name and matches
\* returns the value of that item and no collection, whatever the value is:
\* an empty list, empty bytes, 0 and None included.
C35_BlankNameIsBare ==
    fam = "X"
        => \A item \in BlankItems, kw \in BOOLEAN,
              before \in {<<>>, <<XString("sx", NoName, <<"x">>)>>} :
              LET g  == XGroup("g1", NoName, before \o <<item>>, kw)
                  r  == Node_call(buf, g, entry)
                  c1 == IF before = <<>> THEN entry
                        ELSE Node_call(buf, before[1], GroupSkip(g, entry)).cur
                  ri == Node_call(buf, item, GroupSkip(g, c1))
              IN  (r.st = "ok" /\ ~IsNoMatch(r.val)) => r.val = ri.val

\* The node invoked is a Repeat (grammar/nodes) or a NodeRange (lexer) with
\* no max
UnboundedRepeat ==
    /\ fam \in {"G", "X"}
    /\ node[1].kind = (IF fam = "G" THEN "Repeat" ELSE "Range")
    /\ node[1].max = NoMax

\* C38: a ready Repeat with no max ends on every buffer, by a value, a
\* no-match or an exception, also when its sub-node succeeds without
\* consuming a byte.
C38_UnboundedRepeatEnds ==
    (pc = "done" /\ UnboundedRepeat /\ TopReady) => res.st # "hang"

----------------------------------------------------------------------------
(* The state machine of the operations on one Grammar and its nodes        *)

MaxBumps == 1         \* how far a compile_order_hint is followed above its base

\* Grammar.compile given as names: None, or some of the names
ExplicitNames == {{n} : n \in Names}

HintsInBound(os) == \A o \in ObjIds : os[o].hint <= BaseHint(o) + MaxBumps

\* A new Grammar without patterns, and the nodes constructed for it
GrammarInit ==
    /\ objs = [o \in ObjIds |-> NewObj(o)]
    /\ gnodes = [n \in Names |-> NoObj]
    /\ patterns = {}
    /\ ret = NoRet
    /\ fam = "L" /\ buf = <<>> /\ node = <<LNull, NoMode>>
    /\ entry = StaticLCNo_init /\ cur = StaticLCNo_init
    /\ res = NoResult /\ pc = "idle"

\* node.bind(grammar, compile=...) and node.unbind(compile=...) (base.py):
\* the objects afterwards and "ok" or the exception raised
node_bind(os, gn, patts, o, to, compile) ==
    LET o1 == [os EXCEPT ![o].bound = to]
    IN  IF compile THEN node_compile(o1, gn, patts, o)
        ELSE [objs |-> o1, st |-> "ok"]

\* Grammar.add_node(node, replace=..., bind=..., compile=...): every outcome
add_node(os, gn, patts, o, replace, bind, compile) ==
    LET name == Catalogue[o].name
        exists == gn[name] # NoObj
        gn1 == [gn EXCEPT ![name] = o]
        \* if bind: node.bind(self)
        b == IF ~bind THEN [objs |-> os, st |-> "ok"]
             ELSE node_bind(os, gn1, patts, o, TRUE, TRUE)
    IN  IF exists /\ ~replace
        THEN {[objs |-> os, gnodes |-> gn,
               ret |-> Ret("add_node", "NodeExistsError", {}, {}, FALSE, FALSE)]}
        ELSE IF b.st # "ok"
        THEN {[objs |-> b.objs, gnodes |-> gn1,
               ret |-> Ret("add_node", b.st, {}, {}, FALSE, FALSE)]}
        ELSE IF ~compile
        THEN {[objs |-> b.objs, gnodes |-> gn1,
               ret |-> Ret("add_node", "ok", {}, {}, FALSE, FALSE)]}
        \* self.compile(needed=exists)
        ELSE {[objs |-> r.objs, gnodes |-> gn1,
               ret |-> Ret("add_node", r.st, {}, r.cands, TRUE, r.st = "ok")] :
                 r \in Grammar_compile(b.objs, gn1, patts, AllNames(gn1), exists)}

\* A run works with the NotNode A and one group of further nodes at a time:
\* the nodes of one group go into the grammar only while the nodes of the
\* other groups are as constructed and outside the grammar.  The groups are
\* the PatternNode and the TrueNode, the NotNode C, and the NotNode B.
GroupOf(o) == IF Catalogue[o].kind = "Not" THEN Catalogue[o].name \o Catalogue[o].sub
              ELSE "leaf"
Untouched(os, gn, o) == os[o] = NewObj(o) /\ gn[Catalogue[o].name] # o
MayAdd(os, gn, o) ==
    GroupOf(o) # "AB"
        => \A e \in ObjIds : GroupOf(e) \in {"AB", GroupOf(o)} \/ Untouched(os, gn, e)

AddNode ==
    /\ pc = "idle"
    /\ \E o \in {e \in ObjIds : MayAdd(objs, gnodes, e)},
          replace \in BOOLEAN, bind \in BOOLEAN, compile \in BOOLEAN :
         \E r \in add_node(objs, gnodes, patterns, o, replace, bind, compile) :
            /\ HintsInBound(r.objs)
            /\ objs' = r.objs /\ gnodes' = r.gnodes /\ ret' = r.ret
    /\ UNCHANGED <<patterns, mvars>>

\* Grammar.pop_node(name, ignore_missing=..., compile=...): the grammar
\* afterwards and the node returned (NoObj for None).  Grammar has no method
\* pop, so the removal of a node that is there raises AttributeError.
pop_node(os, gn, name, ignore_missing, compile) ==
    [objs |-> os, gnodes |-> gn, popped |-> NoObj,
     ret |-> IF gn[name] = NoObj
             THEN IF ignore_missing
                  THEN Ret("pop_node", "ok", {}, {}, FALSE, FALSE)
                  ELSE Ret("pop_node", "NodeMissingError", {}, {}, FALSE, FALSE)
             ELSE Ret("pop_node", "AttributeError", {}, {}, FALSE, FALSE)]

PopNode ==
    /\ pc = "idle"
    /\ \E name \in Names, ignore_missing \in BOOLEAN, compile \in BOOLEAN :
         LET r == pop_node(objs, gnodes, name, ignore_missing, compile)
         IN  objs' = r.objs /\ gnodes' = r.gnodes /\ ret' = r.ret
    /\ UNCHANGED <<patterns, mvars>>

\* The nodes that are in the grammar
Stored == {o \in ObjIds : gnodes[Catalogue[o].name] = o}

\* node.bind(grammar, compile=...) of a node of the grammar
NodeBind ==
    /\ pc = "idle"
    /\ \E o \in Stored, compile \in BOOLEAN :
         LET r == node_bind(objs, gnodes, patterns, o, TRUE, compile)
         IN  objs' = r.objs /\ ret' = Ret("bind", r.st, {}, {}, FALSE, FALSE)
    /\ UNCHANGED <<gnodes, patterns, mvars>>

\* node.unbind(compile=...) of a node of the grammar
NodeUnbind ==
    /\ pc = "idle"
    /\ \E o \in Stored, compile \in BOOLEAN :
         LET r == node_bind(objs, gnodes, patterns, o, FALSE, compile)
         IN  objs' = r.objs /\ ret' = Ret("unbind", r.st, {}, {}, FALSE, FALSE)
    /\ UNCHANGED <<gnodes, patterns, mvars>>

\* node.compile(), called on a node of the grammar
NodeCompile ==
    /\ pc = "idle"
    /\ \E o \in Stored :
         LET r == node_compile(objs, gnodes, patterns, o)
         IN  objs' = r.objs /\ ret' = Ret("node_compile", r.st, {}, {}, FALSE, FALSE)
    /\ UNCHANGED <<gnodes, patterns, mvars>>

\* A pattern becomes complete in Grammar.patterns, or is removed from it
AddPattern ==
    /\ pc = "idle"
    /\ \E p \in PatternNames \ patterns :
         patterns' = patterns \cup {p}
    /\ ret' = Ret("add_pattern", "ok", {}, {}, FALSE, FALSE)
    /\ UNCHANGED <<objs, gnodes, mvars>>

RemovePattern ==
    /\ pc = "idle"
    /\ \E p \in patterns :
         patterns' = patterns \ {p}
    /\ ret' = Ret("remove_pattern", "ok", {}, {}, FALSE, FALSE)
    /\ UNCHANGED <<objs, gnodes, mvars>>

\* Grammar.compile(names, needed=...)
GrammarCompile ==
    /\ pc = "idle"
    /\ \E all \in BOOLEAN, needed \in BOOLEAN :
         \E names \in IF all THEN {AllNames(gnodes)} ELSE ExplicitNames :
            \E r \in Grammar_compile(objs, gnodes, patterns, names, needed) :
               /\ HintsInBound(r.objs)
               /\ objs' = r.objs
               /\ ret' = Ret("compile", r.st, r.val, r.cands, all, r.st = "ok")
    /\ UNCHANGED <<gnodes, patterns, mvars>>

\* The names node_stat is asked for when it is given names
StatNames == {{"A"}, {"A", "B"}}

\* Grammar.node_stat(), Grammar.node_stat(names)
NodeStat ==
    /\ pc = "idle"
    /\ \E all \in BOOLEAN :
         \E names \in IF all THEN {AllNames(gnodes)} ELSE StatNames :
            LET r == node_stat(objs, gnodes, names)
            IN  ret' = Ret("node_stat", r.st, r.val,
                           IF r.st = "ok" THEN names ELSE {}, all, FALSE)
    /\ UNCHANGED <<objs, gnodes, patterns, mvars>>

GrammarNext ==
    \/ AddNode \/ PopNode \/ NodeBind \/ NodeUnbind \/ NodeCompile
    \/ AddPattern \/ RemovePattern \/ GrammarCompile \/ NodeStat

SpecGrammar == GrammarInit /\ [][GrammarNext]_vars

----------------------------------------------------------------------------
(* Properties of the grammar after a compile                               *)

IsReady(o) == objs[o].failure = Ready
SubOf(o) == gnodes[Catalogue[o].sub]

\* C8: when an operation has ended with a Grammar.compile over all names,
\* every node of the grammar whose failure is None has its named sub-node
\* in the grammar, holds as its resolved sub-node the node now stored under
\* that name, that sub-node has failure None too, and the pattern it needs
\* is complete.
C8_ReadyNodesResolved ==
    (ret.compiled /\ ret.all)
        => \A o \in Stored : IsReady(o)
              => /\ Catalogue[o].kind = "Not"
                    => /\ SubOf(o) # NoObj
                       /\ objs[o].node = SubOf(o)
                       /\ IsReady(SubOf(o))
                 /\ Catalogue[o].kind = "Pattern"
                    => is_complete(patterns, Catalogue[o].sub)

\* C9: the set Grammar.compile returns is exactly the set of the names it
\* compiled whose node has a failure when it returns.
C9_CompileReturnsFailed ==
    (ret.op = "compile" /\ ret.st = "ok")
        => ret.val = {n \in ret.cands : ~IsReady(gnodes[n])}

\* Every node of the grammar is bound, every sub-node named is in the
\* grammar and every pattern named is complete (no node of the catalogue
\* depends on itself)
WellFormed ==
    \A o \in Stored :
        /\ objs[o].bound
        /\ Catalogue[o].kind = "Not" => SubOf(o) # NoObj
        /\ Catalogue[o].kind = "Pattern" => is_complete(patterns, Catalogue[o].sub)

\* C10: on a grammar whose nodes are all bound, whose sub-node names all
\* exist and whose patterns are all complete, one Grammar.compile over all
\* names returns the empty set and leaves every node with failure None,
\* whatever failures the nodes had before.
C10_CompileConverges ==
    (ret.op = "compile" /\ ret.all /\ WellFormed)
        => /\ ret.st = "ok" /\ ret.val = {}
           /\ \A o \in Stored : IsReady(o)

----------------------------------------------------------------------------
(* Properties of Grammar.compile as a function of the grammar              *)

\* The names of the grammar whose node has failure None
ReadyNames(os, gn) == {n \in AllNames(gn) : os[gn[n]].failure = Ready}

\* C11: from any state of the grammar, Grammar.compile(needed=True) run
\* twice in succession over all names leaves, after the second run, the same
\* names ready and the same names failed as after the first.
C11_CompileIdempotent ==
    \A r1 \in Grammar_compile(objs, gnodes, patterns, AllNames(gnodes), TRUE) :
        \A r2 \in Grammar_compile(r1.objs, gnodes, patterns, AllNames(gnodes), TRUE) :
            ReadyNames(r2.objs, gnodes) = ReadyNames(r1.objs, gnodes)

\* The objects with the compile_order_hint of every node of the grammar
\* raised above its base by b[o], as b[o] failed compiles leave it
WithBumps(os, b) ==
    [o \in ObjIds |-> IF o \in DOMAIN b THEN [os[o] EXCEPT !.hint = BaseHint(o) + b[o]]
                      ELSE os[o]]
\* The copies of the grammar that differ in their hints only, no two nodes
\* of a copy with the same hint (the order of a pass is then the hints' alone)
HintCopies ==
    {WithBumps(objs, b) : b \in {f \in [Stored -> 0..MaxBumps] :
        \A o1, o2 \in Stored :
            o1 # o2 => BaseHint(o1) + f[o1] # BaseHint(o2) + f[o2]}}

\* C12: two copies of a grammar that differ only in the compile_order_hint
\* of their nodes have the same names ready after Grammar.compile over all
\* names, with needed true and with needed false.
C12_HintsDoNotDecide ==
    \A os1 \in HintCopies, os2 \in HintCopies, needed \in BOOLEAN :
        \A r1 \in Grammar_compile(os1, gnodes, patterns, AllNames(gnodes), needed) :
            \A r2 \in Grammar_compile(os2, gnodes, patterns, AllNames(gnodes), needed) :
                ReadyNames(r1.objs, gnodes) = ReadyNames(r2.objs, gnodes)

\* A node can be resolved: it is bound, the pattern it names is complete, and
\* the sub-node it names is in the grammar and can be resolved, by a chain of
\* at most k nodes (a node of a cycle cannot)
RECURSIVE Resolvable(_, _, _, _, _)
Resolvable(os, gn, patts, o, k) ==
    /\ k > 0
    /\ o # NoObj
    /\ os[o].bound
    /\ Catalogue[o].kind = "Pattern" => is_complete(patts, Catalogue[o].sub)
    /\ Catalogue[o].kind = "Not"
          => Resolvable(os, gn, patts, gn[Catalogue[o].sub], k - 1)

\* C13: Grammar.compile over all names ends after at most one pass more
\* than it has candidates, on every grammar, with nodes in a cycle, names
\* of sub-nodes and patterns that are missing; and the candidates it leaves
\* with a failure are exactly those that cannot be resolved.
C13_CompileTerminates ==
    \A needed \in BOOLEAN :
        \A r \in Grammar_compile(objs, gnodes, patterns, AllNames(gnodes), needed) :
            /\ r.passes <= Cardinality(r.cands) + 1
            /\ \A n \in r.cands :
                    (r.objs[gnodes[n]].failure # Ready)
                        <=> ~Resolvable(r.objs, gnodes, patterns, gnodes[n],
                                        Cardinality(Names))

----------------------------------------------------------------------------
(* Properties of node_stat, add_node and pop_node                          *)

\* C14: the two sets node_stat returns are disjoint, their union is the set
\* of names asked for (every name of the grammar when none are given), and
\* a name is in the first set exactly when its node has failure None.
C14_NodeStatPartitions ==
    (ret.op = "node_stat" /\ ret.st = "ok")
        => /\ ret.val[1] \cap ret.val[2] = {}
           /\ ret.val[1] \cup ret.val[2] = ret.cands
           /\ ret.all => ret.cands = AllNames(gnodes)
           /\ \A n \in ret.cands : n \in ret.val[1] <=> IsReady(gnodes[n])

\* node_stat() of a grammar with a ready and a failed node
C14_Witness ==
    /\ ret.op = "node_stat" /\ ret.st = "ok" /\ ret.all
    /\ ret.val[1] # {} /\ ret.val[2] # {}

\* C15: add_node of a node whose name is in the grammar, with replace
\* false, raises NodeExistsError and leaves the mapping of names and every
\* node, the new one included, as they were; with replace true or a name
\* that is new, the node is stored under its name and add_node returns it.
C15_AddNodeExists ==
    \A o \in {e \in ObjIds : MayAdd(objs, gnodes, e)},
       replace \in BOOLEAN, bind \in BOOLEAN, compile \in BOOLEAN :
        \A r \in add_node(objs, gnodes, patterns, o, replace, bind, compile) :
            IF gnodes[Catalogue[o].name] # NoObj /\ ~replace
            THEN /\ r.ret.st = "NodeExistsError"
                 /\ r.gnodes = gnodes
                 /\ r.objs = objs
            ELSE /\ r.gnodes[Catalogue[o].name] = o
                 /\ r.ret.st = "ok"

\* C16: pop_node of a name that is in the grammar takes the name out of the
\* mapping and returns the node it had; pop_node of a name that is not
\* raises NodeMissingError and changes nothing, and with ignore_missing it
\* returns None, changes nothing and runs no compile.
C16_PopNodeRemoves ==
    \A name \in Names, ignore_missing \in BOOLEAN, compile \in BOOLEAN :
        LET r == pop_node(objs, gnodes, name, ignore_missing, compile)
        IN  IF gnodes[name] # NoObj
            THEN /\ r.ret.st = "ok"
                 /\ r.gnodes[name] = NoObj
                 /\ r.popped = gnodes[name]
            ELSE /\ r.ret.st = IF ignore_missing THEN "ok" ELSE "NodeMissingError"
                 /\ r.popped = NoObj
                 /\ r.gnodes = gnodes /\ r.objs = objs
                 /\ ~r.ret.compiled

\* C17: every node whose grammar back-reference is set is stored in the
\* grammar under its name; a node displaced by a replacing add_node or
\* removed by pop_node is not bound any more.
C17_BoundNodesAreStored ==
    \A o \in ObjIds : objs[o].bound => gnodes[Catalogue[o].name] = o

\* C28: the compile of a bound NotNode does not raise; when the node it names
\* is not in the grammar it leaves a failure on the NotNode; when that node is
\* there and has a failure, it leaves DependencyNodeNotReadyError; and it
\* leaves the NotNode without failure only when the named node is there and
\* has none.
C28_NestedCompile ==
    \A o \in ObjIds :
        (Catalogue[o].kind = "Not" /\ objs[o].bound)
            => LET r == node_compile(objs, gnodes, patterns, o)
                   t == gnodes[Catalogue[o].sub]
               IN  /\ r.st = "ok"
                   /\ t = NoObj => r.objs[o].failure # Ready
                   /\ (t # NoObj /\ objs[t].failure # Ready)
                        => r.objs[o].failure = "DependencyNodeNotReadyError"
                   /\ r.objs[o].failure = Ready
                        => t # NoObj /\ r.objs[t].failure = Ready

\* C29: an add_node that compiles runs Grammar.compile over the nodes that
\* have a failure when the name added was new (needed true), and over all
\* the nodes of the grammar when the node took the place of another (needed
\* false), so that the nodes that name it are compiled against the new node.
C29_AddNodeCompileScope ==
    \A o \in ObjIds, bind \in BOOLEAN :
        LET name == Catalogue[o].name
            gn1  == [gnodes EXCEPT ![name] = o]
            b    == IF bind THEN node_bind(objs, gn1, patterns, o, TRUE, TRUE)
                    ELSE [objs |-> objs, st |-> "ok"]
        IN  b.st = "ok"
              => \A r \in add_node(objs, gnodes, patterns, o, TRUE, bind, TRUE) :
                    r.ret.cands = IF gnodes[name] = NoObj
                                  THEN {n \in AllNames(gn1) : b.objs[gn1[n]].failure # Ready}
                                  ELSE AllNames(gn1)

\* C30: Grammar.compile with needed true compiles only the nodes that have a
\* failure when it is called, and leaves the failure and the
\* compile_order_hint of every node that has none as they are.
C30_NeededFrame ==
    \A r \in Grammar_compile(objs, gnodes, patterns, AllNames(gnodes), TRUE) :
        /\ r.cands = {n \in AllNames(gnodes) : objs[gnodes[n]].failure # Ready}
        /\ \A n \in AllNames(gnodes) :
              objs[gnodes[n]].failure = Ready
                => /\ r.objs[gnodes[n]].failure = Ready
                   /\ r.objs[gnodes[n]].hint = objs[gnodes[n]].hint

\* C31: the compile of a node that is not bound, of whatever class, leaves
\* ReferenceError as the failure of that node, raises nothing, and changes
\* the failure of no other node.
C31_UnboundCompile ==
    \A o \in ObjIds :
        ~objs[o].bound
            => LET r == node_compile(objs, gnodes, patterns, o)
               IN  /\ r.st = "ok"
                   /\ r.objs[o].failure = "ReferenceError"
                   /\ \A e \in ObjIds \ {o} : r.objs[e].failure = objs[e].failure

----------------------------------------------------------------------------
(* The state machine of the calls on one BufferMatcher_DynamicLCNo         *)

MaxStep  == 2         \* the largest amount stepped, forwards or backwards
MaxBelow == 2         \* how far below 0 the position is followed
MaxLno   == 4         \* how far the line counter of the matcher is followed

\* data[start:stop] of Python for any integers: a negative index counts
\* from the end, and both are clipped to the data
PySlice(data, start, stop) ==
    LET n == Len(data)
        a == IF start < 0 THEN Max2(n + start, 0) ELSE Min2(start, n)
        b == IF stop < 0 THEN Max2(n + stop, 0) ELSE Min2(stop, n)
    IN  SubSeq(data, a + 1, b)

\* The functions given to the matcher: the match of the regular expression
\* that is the literal lit, the empty one included
MatchLits == {l \in Buffers : Len(l) <= 2}

\* BufferMatcher_DynamicLCNo.__call__(func), func the match of lit: the
\* position afterwards and the re.Match returned, or None
DynamicLCNo_call(data, pos, lit) ==
    IF ~StartsWith(PySliceFrom(data, pos), lit)
    THEN [st |-> "ok", pos |-> pos, val |-> None]
    ELSE [st |-> "ok", pos |-> pos + Len(lit) - 1, val |-> ReMatch(lit)]

\* BufferMatcher_DynamicLCNo.step(amount, allow_breakout=...): the position
\* afterwards and the bytes returned, or the IndexError raised
DynamicLCNo_step(data, pos, amount, allow_breakout) ==
    LET newp == pos + amount
    IN  IF (~allow_breakout /\ newp < 0) \/ newp > Len(data)
        THEN [st |-> "IndexError", pos |-> pos, val |-> None]
        ELSE [st |-> "ok",
              pos |-> IF newp < 0 THEN Len(data) + newp ELSE newp,
              val |-> Bytes(IF amount < 0 THEN PySlice(data, newp, pos)
                            ELSE PySlice(data, pos, newp))]

\* BufferMatcher_StaticLCNo.step(amount, allow_breakout=...): the matcher
\* afterwards; lno and cno are taken over from the properties of
\* BufferMatcher_DynamicLCNo when bytes were returned
StaticLCNo_step_breakout(data, c, amount, allow_breakout) ==
    LET r == DynamicLCNo_step(data, c.pos, amount, allow_breakout)
    IN  IF r.st = "ok" /\ r.val.b # <<>>
        THEN [pos |-> r.pos,
              lno |-> DynamicLCNo_lno(data, r.pos),
              cno |-> DynamicLCNo_cno(data, r.pos)]
        ELSE [c EXCEPT !.pos = r.pos]

\* What the last call on the matcher was, with its arguments and outcome
Called(op, lit, amount, allow_breakout, r) ==
    [op |-> op, lit |-> lit, amount |-> amount, allow_breakout |-> allow_breakout,
     st |-> r.st, val |-> r.val]

\* BufferMatcher_StaticLCNo(data), which is a BufferMatcher_DynamicLCNo
\* with the fields lno and cno: entry is the matcher before the last call,
\* cur the matcher now
MatcherInit ==
    /\ fam = "BM" /\ pc = "matcher"
    /\ buf \in Buffers
    /\ node = <<LNull, NoMode>>
    /\ entry = StaticLCNo_init /\ cur = StaticLCNo_init
    /\ res = Called("new", <<>>, 0, FALSE, [st |-> "ok", val |-> None])
    /\ objs = [o \in ObjIds |-> NewObj(o)]
    /\ gnodes = [n \in Names |-> NoObj]
    /\ patterns = {}
    /\ ret = NoRet

\* matcher(func)
Apply ==
    /\ pc = "matcher"
    /\ \E lit \in MatchLits :
         LET r == DynamicLCNo_call(buf, cur.pos, lit)
         IN  /\ r.pos >= -MaxBelow
             /\ StaticLCNo_call(buf, cur, lit).lno <= MaxLno
             /\ res' = Called("apply", lit, 0, FALSE, r)
             /\ cur' = StaticLCNo_call(buf, cur, lit)
    /\ entry' = cur
    /\ UNCHANGED <<fam, node, buf, pc>>
    /\ UNCHANGED gvars

\* matcher.step(amount, allow_breakout=...)
Step ==
    /\ pc = "matcher"
    /\ \E amount \in -MaxStep..MaxStep, allow_breakout \in BOOLEAN :
         LET r == DynamicLCNo_step(buf, cur.pos, amount, allow_breakout)
         IN  /\ r.pos >= -MaxBelow
             /\ res' = Called("step", <<>>, amount, allow_breakout, r)
             /\ cur' = StaticLCNo_step_breakout(buf, cur, amount, allow_breakout)
    /\ entry' = cur
    /\ UNCHANGED <<fam, node, buf, pc>>
    /\ UNCHANGED gvars

MatcherNext == Apply \/ Step

SpecMatcher == MatcherInit /\ [][MatcherNext]_vars

----------------------------------------------------------------------------
(* Properties of the buffer matcher                                        *)

\* C18: when the function applied matches the slice of the buffer from the
\* offset, the offset advances by exactly the length of the match and the
\* match is returned; when it does not match, None is returned and the
\* offset is as it was.
C18_ApplyAdvances ==
    res.op = "apply"
        => IF StartsWith(PySliceFrom(buf, entry.pos), res.lit)
           THEN cur.pos = entry.pos + Len(res.lit) /\ res.val = ReMatch(res.lit)
           ELSE cur.pos = entry.pos /\ res.val = None

\* The new offset step(n) asks for lies in the buffer
StepInRange == entry.pos + res.amount \in 0..Len(buf)
\* The bytes of the buffer between two offsets
BytesBetween(a, b) ==
    SubSeq(buf, Max2(Min2(a, b), 0) + 1, Min2(Max2(a, b), Len(buf)))

\* C19: step(n) raises IndexError exactly when offset + n lies outside
\* [0, length of the buffer] and allow_breakout is not set, and leaves the
\* offset as it was; with allow_breakout set it never raises; and whenever it
\* does not raise and offset + n is in range, the offset moves by n and the
\* bytes between the old and the new offset are returned.
C19_StepRange ==
    res.op = "step"
        => /\ res.st = "IndexError" <=> (~StepInRange /\ ~res.allow_breakout)
           /\ res.st = "IndexError" => cur.pos = entry.pos
           /\ (res.st = "ok" /\ StepInRange)
                => /\ cur.pos = entry.pos + res.amount
                   /\ res.val = Bytes(BytesBetween(entry.pos, cur.pos))

\* C20: after any calls of the matcher and of step, raising or not, the
\* offset lies in [0, length of the buffer].
C20_OffsetInBuffer == cur.pos \in 0..Len(buf)

\* The offsets of the newlines in buffer[0..offset], offset the cursor's
NewlinesUpTo == {i \in 0..cur.pos : i < Len(buf) /\ buf[i + 1] = NL}
LastNewlineUpTo == CHOOSE i \in NewlinesUpTo : \A j \in NewlinesUpTo : j <= i

\* C21: for every buffer and every offset of the cursor in it, the line the
\* matcher reports is the number of newline bytes in buffer[0..offset] plus
\* one, and the column is the offset minus the offset of the last newline in
\* that prefix, or the offset when there is none.
C21_LineColumnOfPrefix ==
    cur.pos \in 0..Len(buf)
        => /\ DynamicLCNo_lno(buf, cur.pos) = Cardinality(NewlinesUpTo) + 1
           /\ DynamicLCNo_cno(buf, cur.pos) =
                 IF NewlinesUpTo = {} THEN cur.pos ELSE cur.pos - LastNewlineUpTo

\* C22: after every sequence of calls of the matcher and of step on a
\* buffer, the line and the column kept by BufferMatcher_StaticLCNo are the
\* ones BufferMatcher_DynamicLCNo computes at the same offset (the offset is
\* the same field of both).
C22_StaticIsDynamic ==
    res.op \in {"apply", "step"}
        => /\ cur.lno = DynamicLCNo_lno(buf, cur.pos)
           /\ cur.cno = DynamicLCNo_cno(buf, cur.pos)

----------------------------------------------------------------------------
(* The state machine of the matches of one IndentationNode                 *)

MaxIndentLen == 5     \* the longest buffer an IndentationNode is matched on

TAB == "\t"

\* GrammarMark.INDENT, GrammarMark.DEDENT, GrammarMark.NO_CHANGE
INDENT    == [t |-> "INDENT"]
DEDENT    == [t |-> "DEDENT"]
NO_CHANGE == [t |-> "NO_CHANGE"]

\* IndentationNode.SPACES
SPACES == <<SP, TAB>>

\* The longest run of bytes of SPACES that data starts with
RECURSIVE SpacesPrefix(_)
SpacesPrefix(data) ==
    IF data = <<>> \/ data[1] \notin {SP, TAB} THEN <<>>
    ELSE <<data[1]>> \o SpacesPrefix(Tail(data))

\* IndentationNode.INDENT_PATT.match(data): group(1) of the match, or None
\* when data does not start with a newline
INDENT_PATT_match(data) ==
    IF data = <<>> \/ data[1] # NL THEN None
    ELSE ReMatch(SpacesPrefix(Tail(data)))

\* bytes.count(s) for one byte s
CountByte(bs, s) == Cardinality({i \in 1..Len(bs) : bs[i] = s})

\* A count that sees the spaces only, not the tabs
IndentationNode_count_spaces(mat) ==
    IF mat = None THEN 0 ELSE CountByte(mat.b, SPACES[1])

\* count of IndentationNode.match: 0 without a match, else the number of
\* bytes of group(1) that are in SPACES
IndentationNode_count(mat) ==
    IF mat = None THEN 0
    ELSE CountByte(mat.b, SPACES[1]) + CountByte(mat.b, SPACES[2])

\* A loop that also pops the level it arrives at
RECURSIVE IndentationNode_dedent_through(_, _, _)
IndentationNode_dedent_through(indents, count, dedents) ==
    IF indents # <<>> /\ count <= indents[Len(indents)]
    THEN IndentationNode_dedent_through(SubSeq(indents, 1, Len(indents) - 1),
                                        count, dedents + 1)
    ELSE [indents |-> indents, dedents |-> dedents]

\* The while loop of IndentationNode.match: the deque and the number of pops
RECURSIVE IndentationNode_dedent(_, _, _)
IndentationNode_dedent(indents, count, dedents) ==
    IF indents # <<>> /\ count < indents[Len(indents)]
    THEN IndentationNode_dedent(SubSeq(indents, 1, Len(indents) - 1),
                                count, dedents + 1)
    ELSE [indents |-> indents, dedents |-> dedents]

\* IndentationNode.match(on), on a matcher at pos of data: the deque and
\* the position of the matcher afterwards, and what is returned or raised
IndentationNode_match(indents, data, pos) ==
    LET mat   == INDENT_PATT_match(PySliceFrom(data, pos))
        newp  == IF mat = None THEN pos ELSE pos + (1 + Len(mat.b)) - 1
        count == IndentationNode_count(mat)
        top   == indents[Len(indents)]
        d     == IndentationNode_dedent(indents, count, 0)
    IN  IF count > top
        THEN [indents |-> Append(indents, count), pos |-> newp,
              st |-> "ok", val |-> INDENT]
        ELSE IF count = top
        THEN [indents |-> indents, pos |-> newp, st |-> "ok", val |-> NO_CHANGE]
        ELSE IF d.indents = <<>>
        THEN [indents |-> d.indents, pos |-> newp, st |-> "IndexError", val |-> None]
        ELSE IF count # d.indents[Len(d.indents)]
        THEN [indents |-> d.indents, pos |-> newp,
              st |-> "IndentationError", val |-> None]
        ELSE [indents |-> d.indents, pos |-> newp,
              st |-> "ok", val |-> Tuple(<<DEDENT, IntVal(d.dedents)>>)]

IndentBuffers == SeqsUpTo({NL, SP, TAB}, MaxIndentLen)

\* IndentationNode(name): setup() leaves deque((0,)) in indents.  node is the
\* deque of the node, buf the data of the matchers it is given, entry the
\* deque and the position of the matcher before the last match
IndentInit ==
    /\ fam = "IN" /\ pc = "indent"
    /\ buf \in IndentBuffers
    /\ node = <<0>>
    /\ entry = [pos |-> 0, indents |-> <<0>>] /\ cur = [pos |-> 0]
    /\ res = [op |-> "new", st |-> "ok", val |-> None]
    /\ objs = [o \in ObjIds |-> NewObj(o)]
    /\ gnodes = [n \in Names |-> NoObj]
    /\ patterns = {}
    /\ ret = NoRet

\* node.match(on), on a matcher anywhere on the data
IndentMatch ==
    /\ pc = "indent"
    /\ node # <<>>
    /\ \E pos \in 0..Len(buf) :
         LET r == IndentationNode_match(node, buf, pos)
         IN  /\ entry' = [pos |-> pos, indents |-> node]
             /\ node' = r.indents
             /\ cur' = [pos |-> r.pos]
             /\ res' = [op |-> "match", st |-> r.st, val |-> r.val]
    /\ UNCHANGED <<fam, buf, pc>>
    /\ UNCHANGED gvars

IndentNext == IndentMatch

SpecIndent == IndentInit /\ [][IndentNext]_vars

----------------------------------------------------------------------------
(* Properties of the IndentationNode                                       *)

\* n: the number of space and tab bytes after the newline at the position
\* the match started from, 0 when there is no newline there
IndentRead ==
    IF entry.pos < Len(buf) /\ buf[entry.pos + 1] = NL
    THEN Cardinality({j \in (entry.pos + 2)..Len(buf) :
                        \A i \in (entry.pos + 2)..j : buf[i] \in {SP, TAB}})
    ELSE 0

\* The levels of the stack before the match that are not above n
LevelsKept ==
    LET keep(x) == x <= IndentRead
    IN  SelectSeq(entry.indents, keep)

\* C23: a match with n bytes of indentation read and top the top of the
\* stack pushes n and returns INDENT when n > top; returns NO_CHANGE and
\* leaves the stack when n = top; and when n < top pops while the top is
\* above n, then returns (DEDENT, number of pops) when the new top is n and
\* raises IndentationError, not returning NO_MATCH, when it is not.
C23_IndentMatch ==
    res.op = "match"
        => LET n   == IndentRead
               top == entry.indents[Len(entry.indents)]
           IN  /\ n > top => /\ node = Append(entry.indents, n)
                             /\ res.st = "ok" /\ res.val = INDENT
               /\ n = top => /\ node = entry.indents
                             /\ res.st = "ok" /\ res.val = NO_CHANGE
               /\ n < top => /\ node = LevelsKept
                             /\ IF LevelsKept[Len(LevelsKept)] = n
                                THEN /\ res.st = "ok"
                                     /\ res.val = Tuple(<<DEDENT,
                                          IntVal(Len(entry.indents) - Len(LevelsKept))>>)
                                ELSE res.st = "IndentationError"

\* A match that went down two levels at once
C23_Witness ==
    res.op = "match" /\ res.val = Tuple(<<DEDENT, IntVal(2)>>)

\* C24: after any matches on any inputs, those that ended in an
\* IndentationError included, the stack of the node is non-empty, strictly
\* increasing from the bottom to the top, and has 0 at the bottom.
C24_StackShape ==
    /\ node # <<>>
    /\ node[1] = 0
    /\ \A i \in 1..(Len(node) - 1) : node[i] < node[i + 1]

\* A match that ended in an IndentationError after popping
C24_Witness ==
    /\ res.op = "match" /\ res.st = "IndentationError"
    /\ Len(node) < Len(entry.indents)

\* C32: a match at a position that is neither the start of the buffer nor
\* just behind a newline, and at which no newline is read, returns NO_CHANGE
\* and leaves the stack as it was, whatever its top is.
C32_MidLineNoChange ==
    (/\ res.op = "match"
     /\ entry.pos > 0 /\ buf[entry.pos] # NL
     /\ ~(entry.pos < Len(buf) /\ buf[entry.pos + 1] = NL))
        => /\ res.st = "ok" /\ res.val = NO_CHANGE
           /\ node = entry.indents

----------------------------------------------------------------------------
(* The construction of the repeating nodes                                 *)

MaxCount == 3         \* the largest min and max a node is constructed with
MinBelow == 2         \* how far below 0 the min and max given reach

\* RepeatNode.setup(node, min=..., max=...) (grammar/nodes/nested.py): "ok"
\* or the exception raised; min is an int, max an int or None
RepeatNode_setup(min, max) ==
    IF max # None /\ min.n >= max.n THEN "ValueError" ELSE "ok"

\* NodeRange.__init__(node, min, max) (caustic/lexer/nodes.py): "ok" or the
\* exception raised; the assert statements are there unless Python runs
\* with -O
NodeRange_init(min, max, asserts) ==
    LET m == IF min = None THEN IntVal(0) ELSE min
    IN  IF asserts /\ min # None /\ ~(m.n >= 0) THEN "AssertionError"
        ELSE IF asserts /\ ~(max = None \/ max.n >= 0) THEN "AssertionError"
        ELSE "ok"

ConstructMins == {None} \cup {IntVal(n) : n \in -MinBelow..MaxCount}
ConstructMaxs == {None} \cup {IntVal(n) : n \in -MinBelow..MaxCount}

\* node is the class constructed with its arguments min and max and with
\* whether assert statements are executed; a RepeatNode takes no None as min
ConstructInit ==
    /\ fam = "new" /\ pc = "ready"
    /\ \E class \in {"RepeatNode", "NodeRange"}, min \in ConstructMins,
          max \in ConstructMaxs, asserts \in BOOLEAN :
          /\ class = "RepeatNode" => min # None
          /\ node = [class |-> class, min |-> min, max |-> max, asserts |-> asserts]
    /\ buf = <<>>
    /\ entry = StaticLCNo_init /\ cur = StaticLCNo_init
    /\ res = [op |-> "new", st |-> "ok"]
    /\ objs = [o \in ObjIds |-> NewObj(o)]
    /\ gnodes = [n \in Names |-> NoObj]
    /\ patterns = {}
    /\ ret = NoRet

\* RepeatNode(bind, name, node, min=..., max=...)
ConstructRepeatNode ==
    /\ pc = "ready" /\ node.class = "RepeatNode"
    /\ res' = [op |-> "RepeatNode", st |-> RepeatNode_setup(node.min, node.max)]
    /\ pc' = "done"
    /\ UNCHANGED <<fam, node, buf, entry, cur>>
    /\ UNCHANGED gvars

\* NodeRange(node, min, max)
ConstructNodeRange ==
    /\ pc = "ready" /\ node.class = "NodeRange"
    /\ res' = [op |-> "NodeRange",
               st |-> NodeRange_init(node.min, node.max, node.asserts)]
    /\ pc' = "done"
    /\ UNCHANGED <<fam, node, buf, entry, cur>>
    /\ UNCHANGED gvars

ConstructNext == ConstructRepeatNode \/ ConstructNodeRange

SpecConstruct == ConstructInit /\ [][ConstructNext]_vars

\* The min the node is constructed with, 0 when none is given
GivenMin == IF node.min = None THEN 0 ELSE node.min.n

\* C34: the construction of a repeating node is rejected when max is given
\* and is less than or equal to min, max = min included, and when min is
\* negative; it is accepted when max is not given and min is 0 or more.
C34_RepeatBoundsChecked ==
    pc = "done"
        => /\ ((node.max # None /\ node.max.n <= GivenMin) \/ GivenMin < 0)
                => res.st # "ok"
           /\ (node.max = None /\ GivenMin >= 0) => res.st = "ok"

----------------------------------------------------------------------------
(* The textual compilers: compile_expression of caustic/lexer/compiler.py  *)
(* and Grammar.compile_inner of grammar_compiler.py. A grammar text is a   *)
(* sequence of bytes; the matcher over it is its offset.                   *)

MaxTokens == 3        \* the longest grammar text of the enumeration, in tokens

DQ == "\""
SQ == "'"

\* \w, \d and [ims] on the bytes of the grammar texts
IsWord(b)  == b \in {"a", "A", "x", "0", "1"}
IsDigit(b) == b \in {"0", "1"}
IsFlag(b)  == b \in {"i", "m", "s"}

\* int(b) of one digit
DigitValue(b) == CASE b = "0" -> 0 [] b = "1" -> 1

\* bytes.decode()
RECURSIVE decode(_)
decode(bytes) == IF bytes = <<>> THEN "" ELSE bytes[1] \o decode(Tail(bytes))

\* The offset of the first byte b at or after pos, Len(text) when there is none
RECURSIVE Find(_, _, _)
Find(text, pos, b) ==
    IF pos >= Len(text) \/ text[pos + 1] = b THEN pos ELSE Find(text, pos + 1, b)

\* The offset after the run of word bytes, and of flag bytes, that starts at pos
RECURSIVE WordEnd(_, _)
WordEnd(text, pos) ==
    IF pos < Len(text) /\ IsWord(text[pos + 1]) THEN WordEnd(text, pos + 1) ELSE pos
RECURSIVE FlagsEnd(_, _)
FlagsEnd(text, pos) ==
    IF pos < Len(text) /\ IsFlag(text[pos + 1]) THEN FlagsEnd(text, pos + 1) ELSE pos

\* bm.peek(): the next byte, or nothing at the end of the text
bm_peek(text, pos) == SubSeq(text, pos + 1, Min2(pos + 1, Len(text)))

\* A match of a pattern at an offset: hit, the offset after it and its groups
Hit(end, g, p)  == [hit |-> TRUE, end |-> end, g |-> g, p |-> p]
Miss(pos)       == [hit |-> FALSE, end |-> pos, g |-> <<>>, p |-> <<>>]

\* bm.match(PATTERNS.discard), ((\s+)|(#.*$))+ with re.MULTILINE: the offset
\* afterwards; a comment ends before the newline
RECURSIVE PATTERNS_discard(_, _)
PATTERNS_discard(text, pos) ==
    IF pos >= Len(text) THEN pos
    ELSE IF IsSpace(text[pos + 1]) THEN PATTERNS_discard(text, pos + 1)
    ELSE IF text[pos + 1] = "#" THEN PATTERNS_discard(text, Find(text, pos, NL))
    ELSE pos

\* bm.match(PATTERNS.named), ([\w]*): ; p is group 1
PATTERNS_named(text, pos) ==
    LET e == WordEnd(text, pos)
    IN  IF e < Len(text) /\ text[e + 1] = ":"
        THEN Hit(e + 1, <<>>, SubSeq(text, pos + 1, e))
        ELSE Miss(pos)

\* bm.match(PATTERNS.string), the literal between two quotes q; p is its body
\* (the texts have no backslash)
PATTERNS_string(text, pos, q) ==
    LET close == Find(text, pos + 1, q)
    IN  IF pos < Len(text) /\ text[pos + 1] = q /\ close < Len(text)
        THEN Hit(close + 1, <<>>, SubSeq(text, pos + 2, close))
        ELSE Miss(pos)

\* bm.match(PATTERNS.regex), (?P<g>\d)?/(?P<p>...+)/(?P<f>[ims]*) ; g is the
\* digit or empty, p the body, which is not empty
PATTERNS_regex(text, pos) ==
    LET d     == pos < Len(text) /\ IsDigit(text[pos + 1])
        s     == IF d THEN pos + 1 ELSE pos
        close == Find(text, s + 1, "/")
    IN  IF s < Len(text) /\ text[s + 1] = "/" /\ close < Len(text) /\ close > s + 1
        THEN Hit(FlagsEnd(text, close + 1),
                 IF d THEN <<text[pos + 1]>> ELSE <<>>,
                 SubSeq(text, s + 2, close))
        ELSE Miss(pos)

\* bm.match(PATTERNS.context), (\w*), which matches at every offset
PATTERNS_context(text, pos) ==
    Hit(WordEnd(text, pos), <<>>, SubSeq(text, pos + 1, WordEnd(text, pos)))

\* re.compile(p) for the bodies of the texts, which are a literal or a
\* literal inside one capture group: the literal the pattern matches
re_compile(p) == SelectSeq(p, LAMBDA b : b \notin {"(", ")"})

\* The outcome of a compiler: the nodes yielded and the offset reached, the
\* exception raised, or a loop that does not end
Compiled(nodes, pos) == [st |-> "ok", exc |-> "None", nodes |-> nodes, pos |-> pos]
CompileError(e, pos) == [st |-> "raise", exc |-> e, nodes |-> <<>>, pos |-> pos]
CompileHang(pos)     == [st |-> "hang", exc |-> "None", nodes |-> <<>>, pos |-> pos]

RECURSIVE compile_expression(_, _, _, _, _)

\* "finish and yield" of compile_expression: bm.match(PATTERNS.discard),
\* node.name = name, yield the node, and the next iteration of the loop from the
\* offset reached; head is the offset the iteration began at, and an
\* iteration that ends where it began is repeated for ever
compile_yield(text, head, end, name, nd, stop, in_group, nodes) ==
    LET p == PATTERNS_discard(text, end)
    IN  IF p = head THEN CompileHang(p)
        ELSE compile_expression(text, p, stop, in_group,
                                Append(nodes, [nd EXCEPT !.name = name]))

\* tuple(compile_expression(bm, _stop=stop, _in_group=in_group)) with the
\* matcher at head; nodes are the nodes yielded so far
compile_expression(text, head, stop, in_group, nodes) ==
    LET p1   == PATTERNS_discard(text, head)
        nm   == PATTERNS_named(text, p1)
        name == IF nm.hit THEN decode(nm.p) ELSE NoName
        p2   == IF nm.hit THEN PATTERNS_discard(text, nm.end) ELSE p1
        sm   == PATTERNS_string(text, p2, DQ)
        rm   == PATTERNS_regex(text, p2)
        \* bm.read(1)
        c    == text[p2 + 1]
        p3   == p2 + 1
        sub(s, g)       == compile_expression(text, p3, s, g, <<>>)
        next(end, nd) == compile_yield(text, head, end, name, nd, stop,
                                         in_group, nodes)
    IN  IF bm_peek(text, p2) = <<>> THEN CompileError("EOFError", p2)
        ELSE IF sm.hit THEN next(sm.end, XString("str", NoName, sm.p))
        ELSE IF rm.hit
        THEN next(rm.end,
                  XPattern("re", NoName, re_compile(rm.p),
                           IF rm.g = <<>> THEN NoGroup ELSE DigitValue(rm.g[1])))
        ELSE CASE c = "!" ->
                    IF ~in_group \/ name # NoName THEN CompileError("SyntaxError", p3)
                    ELSE next(p3, XStealer)
               [] c = "(" ->
                    LET r == sub(")", TRUE)
                    IN  IF r.st # "ok" THEN r
                        ELSE next(r.pos, XGroup("grp", NoName, r.nodes, FALSE))
               [] c = "{" ->
                    LET r == sub("}", TRUE)
                    IN  IF r.st # "ok" THEN r
                        ELSE next(r.pos, XGroup("grp", NoName, r.nodes, FALSE))
               [] c = "[" ->
                    LET r == sub("]", FALSE)
                    IN  IF r.st # "ok" THEN r
                        ELSE next(r.pos, XUnion("uni", NoName, r.nodes))
               [] c = "<" ->
                    LET p4 == PATTERNS_discard(text, p3)
                        s2 == PATTERNS_string(text, p4, DQ)
                        m2 == IF s2.hit THEN s2 ELSE PATTERNS_context(text, p4)
                        p5 == PATTERNS_discard(text, m2.end)
                    IN  IF p5 < Len(text) /\ text[p5 + 1] = ">"
                        THEN next(p5 + 1, XContext("ctx", NoName, Bytes(m2.p)))
                        ELSE CompileError("SyntaxError", Min2(p5 + 1, Len(text)))
               [] OTHER ->
                    IF c # stop \/ name # NoName THEN CompileError("SyntaxError", p3)
                    ELSE Compiled(nodes, p3)

\* nodes.NodeGroup(*tuple(compile_expression(bm))) of compile, the node of a
\* production
compile_statement(compiled) == XGroup("top", NoName, compiled.nodes, FALSE)

\* compile_node(b'group', val) and compile_node(b'group_ws_sensitive', val) of
\* bootstrapped_compiler.py, for the nodes compiled from val['nodes']
compile_node_group(type, nodes) ==
    IF type = "group_ws_sensitive" THEN XGroup("grp", NoName, nodes, TRUE)
    ELSE XGroup("grp", NoName, nodes, FALSE)

\* --- grammar_compiler.py ---

\* [A-Z] and [a-z] on the bytes of the grammar texts
IsUpper(b) == b \in {"A"}
IsLower(b) == b \in {"a", "x", "i", "m", "s"}

\* Grammar._consume_whitespace: data.step() while data.peek() is in b' \n\r\t'
RECURSIVE consume_whitespace(_, _)
consume_whitespace(text, pos) ==
    IF bm_peek(text, pos) # <<>> /\ bm_peek(text, pos)[1] \in {SP, NL, "\r", TAB}
    THEN consume_whitespace(text, pos + 1)
    ELSE pos

\* data(PATTERNS['terminal'].match) and data(PATTERNS['nonterminal'].match),
\* ([A-Z]+) and ([a-z]+): the matcher advances by the length of the match
RECURSIVE UpperEnd(_, _)
UpperEnd(text, pos) ==
    IF pos < Len(text) /\ IsUpper(text[pos + 1]) THEN UpperEnd(text, pos + 1) ELSE pos
RECURSIVE LowerEnd(_, _)
LowerEnd(text, pos) ==
    IF pos < Len(text) /\ IsLower(text[pos + 1]) THEN LowerEnd(text, pos + 1) ELSE pos
PATTERNS_terminal(text, pos) ==
    IF UpperEnd(text, pos) > pos
    THEN Hit(UpperEnd(text, pos), <<>>, SubSeq(text, pos + 1, UpperEnd(text, pos)))
    ELSE Miss(pos)
PATTERNS_nonterminal(text, pos) ==
    IF LowerEnd(text, pos) > pos
    THEN Hit(LowerEnd(text, pos), <<>>, SubSeq(text, pos + 1, LowerEnd(text, pos)))
    ELSE Miss(pos)

\* data(PATTERNS['regex'].match), /(?P<p>...*)/(?P<f>[ims]*) ; the body may be
\* empty
Grammar_PATTERNS_regex(text, pos) ==
    LET close == Find(text, pos + 1, "/")
    IN  IF pos < Len(text) /\ text[pos + 1] = "/" /\ close < Len(text)
        THEN Hit(FlagsEnd(text, close + 1), <<>>, SubSeq(text, pos + 2, close))
        ELSE Miss(pos)

\* data(PATTERNS['string'].match), a literal in double or in single quotes;
\* group 1 is the literal with its quotes
Grammar_PATTERNS_string(text, pos) ==
    LET m == IF PATTERNS_string(text, pos, DQ).hit THEN PATTERNS_string(text, pos, DQ)
             ELSE PATTERNS_string(text, pos, SQ)
    IN  IF m.hit THEN Hit(m.end, <<>>, SubSeq(text, pos + 1, m.end)) ELSE Miss(pos)

\* What compile_inner yields: a compiled pattern, the bytes of a string, a
\* member of Special, a name, or the tuple of a nested expression
Item(k, v) == [k |-> k, v |-> v]
Special(member) == Item("Special", <<member>>)

RECURSIVE compile_inner_loop(_, _, _, _, _)

\* "continue" of the loop of compile_inner, with the matcher at pos: head is
\* the offset the iteration began at, and an iteration that ends where it
\* began is repeated for ever
compile_inner_continue(text, head, pos, terminal, finalizer, items) ==
    IF pos = head THEN CompileHang(pos)
    ELSE compile_inner_loop(text, pos, terminal, finalizer, items)

\* The loop of compile_inner from a test of its condition, with the matcher
\* at head and items yielded so far
compile_inner_loop(text, head, terminal, finalizer, items) ==
    LET p1 == consume_whitespace(text, head)
        c  == bm_peek(text, p1)
        rm == Grammar_PATTERNS_regex(text, p1)
        sm == Grammar_PATTERNS_string(text, p1)
        mt == PATTERNS_terminal(text, p1)
        mn == PATTERNS_nonterminal(text, p1)
        \* data.step()
        p2 == p1 + 1
        again(pos, new) ==
            compile_inner_continue(text, head, pos, terminal, finalizer, items \o new)
        sub(f) == compile_inner_loop(text, consume_whitespace(text, p2), terminal, f, <<>>)
    IN  IF bm_peek(text, head) = <<>> \/ c = <<>> THEN CompileError("EOFError", p1)
        ELSE IF rm.hit THEN again(rm.end, <<Item("pattern", re_compile(rm.p))>>)
        ELSE IF sm.hit THEN again(sm.end, <<Item("bytes", sm.p)>>)
        ELSE IF ~terminal
        THEN IF mt.hit THEN again(mt.end, <<Special("TERMINAL"), Item("bytes", mt.p)>>)
             ELSE IF mn.hit
             THEN again(mn.end, <<Special("NONTERMINAL"), Item("bytes", mn.p)>>)
             ELSE again(p1, <<>>)
        ELSE IF c[1] = finalizer THEN Compiled(items, p2)
        ELSE CASE c[1] = "!" -> again(p2, <<Special("STEALER")>>)
               [] c[1] = "<" ->
                    LET r == sub(">")
                    IN  IF r.st # "ok" THEN r
                        ELSE again(r.pos, <<Special("TARGET"), Item("tuple", r.nodes)>>)
               [] c[1] = "(" ->
                    LET r == sub(")")
                    IN  IF r.st # "ok" THEN r
                        ELSE again(r.pos, <<Special("PARENS"), Item("tuple", r.nodes)>>)
               [] c[1] = "|" -> again(p2, <<Special("UNION")>>)
               [] OTHER -> CompileError("ValueError", p2)

\* tuple(Grammar.compile_inner(data, terminal=terminal, finalizer=finalizer))
\* with the matcher at pos
compile_inner(text, pos, terminal, finalizer) ==
    compile_inner_loop(text, consume_whitespace(text, pos), terminal, finalizer, <<>>)

\* --- the state machine of one run of a compiler on a grammar text ---

\* The concatenations of up to n of the tokens T
RECURSIVE TextsUpTo(_, _)
TextsUpTo(T, n) ==
    IF n = 0 THEN {<<>>}
    ELSE LET shorter == TextsUpTo(T, n - 1)
         IN  shorter \cup {q \o t : q \in shorter, t \in T}

\* The items and marks of the grammar files of the lexer
StringLit == <<DQ, "x", DQ>>
RegexLits == {<<"/", "x", "/">>, <<"0", "/", "x", "/">>,
              <<"1", "/", "(", "x", ")", "/">>}
ExprTokens ==
    {StringLit} \cup RegexLits
    \cup {<<"(">>, <<")">>, <<"{">>, <<"}">>, <<"[">>, <<"]">>, <<"<", "x", ">">>,
          <<";">>, <<SP>>, <<"!">>, <<"a", ":">>, <<"#">>}

\* An expression that is one sub-sequence of two items, in either bracket,
\* with and without a space between the items
GroupTexts ==
    {<<b[1]>> \o i \o w \o j \o <<b[2], ";">> :
        b \in {<<"(", ")">>, <<"{", "}">>},
        i \in {StringLit} \cup RegexLits, j \in {StringLit} \cup RegexLits,
        w \in {<<>>, <<SP>>}}

ExprTexts == TextsUpTo(ExprTokens, MaxTokens) \cup GroupTexts

\* The items and marks of the grammar files of grammar_compiler.py
InnerTokens ==
    {StringLit, <<"/", "x", "/">>, <<"a">>, <<"A">>, <<";">>, <<SP>>, <<"!">>,
     <<"<">>, <<">">>, <<"(">>, <<")">>, <<"|">>}
InnerTexts == TextsUpTo(InnerTokens, MaxTokens)

\* buf is the grammar text after the "=" of a production, node the kind of
\* the production for compile_inner
CompileInit ==
    /\ pc = "ready"
    /\ \/ fam = "expr" /\ buf \in ExprTexts /\ node = [terminal |-> FALSE]
       \/ fam = "inner" /\ buf \in InnerTexts
                        /\ \E t \in BOOLEAN : node = [terminal |-> t]
    /\ entry = StaticLCNo_init /\ cur = StaticLCNo_init
    /\ res = Compiled(<<>>, 0)
    /\ objs = [o \in ObjIds |-> NewObj(o)]
    /\ gnodes = [n \in Names |-> NoObj]
    /\ patterns = {}
    /\ ret = NoRet

\* tuple(compile_expression(bm)) of compile, caustic/lexer/compiler.py
CompileExpression ==
    /\ pc = "ready" /\ fam = "expr"
    /\ res' = compile_expression(buf, 0, ";", FALSE, <<>>)
    /\ pc' = "done"
    /\ UNCHANGED <<fam, node, buf, entry, cur>>
    /\ UNCHANGED gvars

\* tuple(cls.compile_inner(data, terminal=..., finalizer=b';')) of
\* Grammar.compile, grammar_compiler.py
CompileInner ==
    /\ pc = "ready" /\ fam = "inner"
    /\ res' = compile_inner(buf, 0, node.terminal, ";")
    /\ pc' = "done"
    /\ UNCHANGED <<fam, node, buf, entry, cur>>
    /\ UNCHANGED gvars

CompileNext == CompileExpression \/ CompileInner

SpecCompile == CompileInit /\ [][CompileNext]_vars

\* C39: a run of a textual compiler on a grammar text ends, with the nodes of
\* the expression or with an exception: no iteration of the loop that parses
\* an expression leaves the matcher where it found it and goes round again,
\* in a terminal and in a nonterminal production alike.
C39_CompilerTerminates ==
    pc = "done" => res.st # "hang"

\* The production whose expression is the one sub-sequence g
Production(g) == compile_statement(Compiled(<<g>>, 0))

\* Two nodes of the lexer return the same, with the matcher left at the same
\* place, on every buffer from every offset
SameMatches(a, b) ==
    \A data \in Buffers : \A p \in 0..Len(data) :
        Node_call(data, a, bm_at(data, p)) = Node_call(data, b, bm_at(data, p))

\* C36: a production whose expression is a sub-sequence in braces matches as
\* one whose group does not skip whitespace between its children, and a
\* sub-sequence in parentheses as one whose group skips it; the production
\* itself skips whitespace. So for the grammar text, and so for the nodes
\* group_ws_sensitive and group of the bootstrapped compiler.
C36_BracesKeepWhitespace ==
    (pc = "done" /\ fam = "expr" /\ buf \in GroupTexts /\ res.st = "ok")
        => LET g         == res.nodes[1]
               sensitive == buf[1] = "{"
               type      == IF sensitive THEN "group_ws_sensitive" ELSE "group"
               wanted    == [g EXCEPT !.keep_whitespace = sensitive]
           IN  /\ SameMatches(compile_statement(res), Production(wanted))
               /\ SameMatches(Production(compile_node_group(type, g.nodes)),
                              Production(wanted))

\* The regex literal that the text begins with, the empty sequence when it
\* begins with none
LeadingRegex ==
    IF \E lit \in RegexLits : StartsWith(buf, lit)
    THEN CHOOSE lit \in RegexLits : StartsWith(buf, lit)
    ELSE <<>>

\* C37: the Pattern node of a regex literal with a leading digit d returns on
\* a hit the bytes of group d of the match, for d = 0 as for the other
\* digits, and the node of a literal without a digit returns the match. (In
\* the literals of the texts every group named by the digit holds the byte x.)
C37_DigitPicksGroup ==
    (pc = "done" /\ fam = "expr" /\ LeadingRegex # <<>> /\ res.st = "ok")
        => \A data \in Buffers : \A p \in 0..Len(data) :
              LET r == Node_call(data, res.nodes[1], bm_at(data, p))
              IN  (r.st = "ok" /\ ~IsNoMatch(r.val))
                     => r.val = IF IsDigit(LeadingRegex[1]) THEN Bytes(<<"x">>)
                                ELSE ReMatch(<<"x">>)

====
